---- MODULE Spec2Model ----
(***************************************************************************)
(* Shipment batch ingestion, validation, pricing, bulk mutation and        *)
(* purchase, modelled from shipping/models.py, shipping/serializers.py,    *)
(* shipping/views.py, account/views.py and base/response.py.               *)
(*                                                                         *)
(* Money is held in cents (DecimalField, decimal_places=2); per_oz_rate is *)
(* held in 1/100 cent (decimal_places=4).  A nullable decimal is the empty *)
(* tuple for None and a one-element tuple <<v>> for a value.               *)
(***************************************************************************)
EXTENDS Integers, Sequences, FiniteSets, TLC

VARIABLES
    balance,    \* users.account_balance, per user
    services,   \* shipping_services rows, in primary-key order
    batches,    \* shipment_batches rows, index = primary key
    shipments,  \* shipments rows, index = primary key
    purchases,  \* label_purchases rows, index = primary key
    resp,       \* the response of the last completed observed request
    observe,    \* the operations whose responses are recorded in resp
    nreq,       \* the number of requests handled so far
    req,        \* per in-flight request: position and request-local copies
    vrec,       \* a free-standing Shipment instance (validator harness)
    call,       \* the call or request that runs as steps of its own
    saved_items \* saved_addresses and saved_packages rows, index = primary key

vars == <<balance, services, batches, shipments, purchases, resp, observe,
          nreq, req, vrec, call, saved_items>>

(***************************************************************************)
(* Bounds of the model                                                     *)
(***************************************************************************)
MaxBatches == 2
MaxShipments == 2
MaxPurchases == 2
MaxBalance == 800

Users == {"u1", "u2"}
Slots == {1, 2}

(***************************************************************************)
(* Small helpers                                                           *)
(***************************************************************************)
Range(f) == {f[i] : i \in DOMAIN f}

RECURSIVE SumSeq(_)
SumSeq(s) == IF s = <<>> THEN 0 ELSE Head(s) + SumSeq(Tail(s))

RECURSIVE SumOver(_, _)
SumOver(S, f) ==
    IF S = {} THEN 0
    ELSE LET x == CHOOSE y \in S : TRUE IN f[x] + SumOver(S \ {x}, f)

\* Python truthiness of a str and of an Optional[Decimal]
StrTruthy(s) == s # ""
DecTruthy(d) == d # <<>> /\ d[1] # 0

(***************************************************************************)
(* base/constants.py                                                       *)
(***************************************************************************)
ShipmentStatus == {"uploaded", "reviewing", "ready", "purchased", "cancelled"}
ShipmentValidationStatus == {"pending", "valid", "invalid", "warning"}
ShippingServiceType == {"priority", "ground", "express", "overnight"}

(***************************************************************************)
(* Shipment.total_weight_oz and Shipment.validate_shipment                 *)
(***************************************************************************)
total_weight_oz(s) == (s.weight_lbs * 16) + s.weight_oz

ErrIf(c, msg) == IF c THEN <<msg>> ELSE <<>>

validation_errors_of(s) ==
    ErrIf(~StrTruthy(s.to_first_name), "Recipient first name is required")
    \o ErrIf(~StrTruthy(s.to_address_line1), "Recipient address is required")
    \o ErrIf(~StrTruthy(s.to_city), "Recipient city is required")
    \o ErrIf(~StrTruthy(s.to_state), "Recipient state is required")
    \o ErrIf(~StrTruthy(s.to_zip_code), "Recipient ZIP code is required")

WeightIsZero(s) == s.weight_lbs = 0 /\ s.weight_oz = 0

validation_warnings_of(s) ==
    ErrIf(~StrTruthy(s.from_address_line1), "Sender address is missing")
    \o ErrIf(~(DecTruthy(s.length) /\ DecTruthy(s.width) /\ DecTruthy(s.height)),
             "Package dimensions are missing")
    \o ErrIf(WeightIsZero(s), "Package weight is zero or missing")

\* (variant: the warning branch tested before the error branch)
StatusFrom_warnings_first(errors, warnings) ==
    IF warnings # <<>> THEN "warning"
    ELSE IF errors # <<>> THEN "invalid"
    ELSE "valid"

StatusFrom(errors, warnings) ==
    IF errors # <<>> THEN "invalid"
    ELSE IF warnings # <<>> THEN "warning"
    ELSE "valid"

\* (variant: the lists start from the stored ones instead of from [])
validate_shipment_appending(s) ==
    LET errors == s.validation_errors \o validation_errors_of(s)
        warnings == s.validation_warnings \o validation_warnings_of(s)
    IN [s EXCEPT !.validation_status = StatusFrom(errors, warnings),
                 !.validation_errors = errors,
                 !.validation_warnings = warnings]

validate_shipment(s) ==
    LET errors == validation_errors_of(s)
        warnings == validation_warnings_of(s)
    IN [s EXCEPT !.validation_status = StatusFrom(errors, warnings),
                 !.validation_errors = errors,
                 !.validation_warnings = warnings]

(***************************************************************************)
(* Shipment rows.  NewShipment is Shipment.objects.create(batch=..,        *)
(* **shipment_data): the model defaults for everything the draft omits.    *)
(***************************************************************************)
NewShipment(b, d) ==
    [batch |-> b, row_number |-> d.row_number,
     from_first_name |-> d.from_first_name,
     from_last_name |-> d.from_last_name,
     from_address_line1 |-> d.from_address_line1,
     from_address_line2 |-> d.from_address_line2,
     from_city |-> d.from_city, from_state |-> d.from_state,
     from_zip_code |-> d.from_zip_code,
     to_first_name |-> d.to_first_name,
     to_last_name |-> d.to_last_name,
     to_address_line1 |-> d.to_address_line1,
     to_address_line2 |-> d.to_address_line2,
     to_city |-> d.to_city, to_state |-> d.to_state,
     to_zip_code |-> d.to_zip_code,
     length |-> d.length, width |-> d.width, height |-> d.height,
     weight_lbs |-> d.weight_lbs, weight_oz |-> d.weight_oz,
     shipping_service |-> "", shipping_cost |-> 0,
     validation_status |-> "pending",
     validation_errors |-> <<>>, validation_warnings |-> <<>>,
     from_address_validated |-> FALSE, to_address_validated |-> FALSE,
     is_deleted |-> FALSE]

\* Representative record drafts as CSVParser._parse_row produces them
\* (strings stripped, dimensions 0.0 and weights 0 when blank).
DraftBase ==
    [row_number |-> 3,
     from_first_name |-> "Print", from_last_name |-> "TTS",
     from_address_line1 |-> "9 Oak Ave", from_address_line2 |-> "",
     from_city |-> "Ontario", from_state |-> "CA", from_zip_code |-> "91761",
     to_first_name |-> "Ann", to_last_name |-> "Lee",
     to_address_line1 |-> "1 Main St", to_address_line2 |-> "",
     to_city |-> "Springfield", to_state |-> "IL", to_zip_code |-> "62704",
     length |-> <<500>>, width |-> <<500>>, height |-> <<500>>,
     weight_lbs |-> 1, weight_oz |-> 8]

Drafts ==
    { DraftBase,
      [DraftBase EXCEPT !.to_city = "", !.from_address_line1 = ""],
      [DraftBase EXCEPT !.length = <<0>>, !.weight_lbs = 0, !.weight_oz = 0] }

(***************************************************************************)
(* Validator harness: a single in-memory Shipment instance whose fields    *)
(* are assigned and on which validate_shipment is run.                     *)
(***************************************************************************)
StrVals == {"", "x"}
DimVals == {<<>>, <<0>>, <<500>>}
LbsVals == {-1, 0, 1}
OzVals == {0, 8, 16}

HarnessInputs ==
    { [DraftBase EXCEPT !.to_first_name = f[1], !.to_address_line1 = f[2],
                        !.to_city = f[3], !.to_state = f[4],
                        !.to_zip_code = f[5], !.from_address_line1 = f[6],
                        !.length = d[1], !.width = d[2], !.height = d[3],
                        !.weight_lbs = w[1], !.weight_oz = w[2]] :
        f \in [1..6 -> StrVals], d \in [1..3 -> DimVals],
        w \in LbsVals \X OzVals }

\* ran: validate_shipment has run since the last assignment; runs: how often
NoRec == [ran |-> FALSE, rec |-> NewShipment(0, DraftBase), runs |-> 0]

(***************************************************************************)
(* base/response.py: the response envelope.  An errors argument is         *)
(*   [kind |-> "none"]                      None                           *)
(*   [kind |-> "str",  val |-> s]           a str                          *)
(*   [kind |-> "num",  val |-> n]           a float                        *)
(*   [kind |-> "list", val |-> <<e, ..>>]   a list                         *)
(*   [kind |-> "dict", val |-> <<<<k, e>>, ..>>]  a dict, insertion order   *)
(* A rendered string is [kind |-> "text", val |-> s] for a literal and     *)
(* [kind |-> "repr", val |-> n] for str() of a number.                     *)
(***************************************************************************)
ENone == [kind |-> "none"]
EStr(s) == [kind |-> "str", val |-> s]
ENum(n) == [kind |-> "num", val |-> n]
EList(l) == [kind |-> "list", val |-> l]
EDict(d) == [kind |-> "dict", val |-> d]

NoErrorsKey == [kind |-> "absent"]
Text(s) == [kind |-> "text", val |-> s]
Repr(n) == [kind |-> "repr", val |-> n]

RECURSIVE convert_errors_to_string(_)
convert_errors_to_string(errors) ==
    CASE errors.kind = "none" -> Text("")
      [] errors.kind = "str" -> Text(errors.val)
      [] errors.kind = "dict" ->
            IF errors.val # <<>>
            THEN convert_errors_to_string(errors.val[1][2])
            ELSE Text("Validation error")
      [] errors.kind = "list" ->
            IF errors.val # <<>>
            THEN convert_errors_to_string(errors.val[1])
            ELSE Text("Validation error")
      [] OTHER -> Repr(errors.val)

\* APIResponse.error: the errors key is present only when errors is not None
APIError(message, errors, status_code) ==
    [status |-> "error", code |-> status_code, message |-> message,
     errors |-> IF errors.kind # "none"
                THEN convert_errors_to_string(errors) ELSE NoErrorsKey]

APISuccess(message, status_code) ==
    [status |-> "success", code |-> status_code, message |-> message,
     errors |-> NoErrorsKey]

HTTP_200_OK == 200
HTTP_201_CREATED == 201
HTTP_400_BAD_REQUEST == 400
HTTP_404_NOT_FOUND == 404
HTTP_422_UNPROCESSABLE_ENTITY == 422

success(message) == APISuccess(message, HTTP_200_OK)
created(message) == APISuccess(message, HTTP_201_CREATED)
error(message, errors) == APIError(message, errors, HTTP_400_BAD_REQUEST)
not_found(message) == APIError(message, ENone, HTTP_404_NOT_FOUND)
validation_error(message, errors) ==
    APIError(message, errors, HTTP_422_UNPROCESSABLE_ENTITY)

\* What is recorded of a handled request: which request, and the envelope.
NoResp ==
    [op |-> "none", user |-> "", target |-> 0, code |-> 0, message |-> "",
     errors |-> NoErrorsKey]

Resp(op, u, target, body) ==
    IF op \in observe
    THEN [op |-> op, user |-> u, target |-> target, code |-> body.code,
          message |-> body.message, errors |-> body.errors]
    ELSE NoResp

(***************************************************************************)
(* Record-store queries                                                    *)
(***************************************************************************)
BatchIds == 1..MaxBatches
ShipmentIds == 1..MaxShipments

\* ShipmentBatch.objects.get(id=id, user=request.user) finds a row
BatchOwned(bts, u, b) == b \in DOMAIN bts /\ bts[b].user = u

\* base.managers.ActiveManager, the default manager of every model: the
\* rows that are not deleted
ActiveManager(r) == ~r.is_deleted

\* batch.shipments (related manager over the default manager)
BatchShipments(shs, b) ==
    {i \in DOMAIN shs : shs[i].batch = b /\ ActiveManager(shs[i])}

\* (variant: the filter without batch__user=request.user)
OwnedShipments_any_owner(shs, bts, u, ids) ==
    {i \in DOMAIN shs : i \in Range(ids) /\ ActiveManager(shs[i])}

\* Shipment.objects.filter(id__in=ids, batch__user=request.user)
OwnedShipments(shs, bts, u, ids) ==
    {i \in DOMAIN shs : /\ i \in Range(ids)
                        /\ ActiveManager(shs[i])
                        /\ bts[shs[i].batch].user = u}

AggregateSum(shs, b) ==
    SumOver(BatchShipments(shs, b), [i \in DOMAIN shs |-> shs[i].shipping_cost])

\* ShipmentBatch.calculate_total_cost: recompute, save(update_fields=total_cost)
calculate_total_cost(bts, shs, b) ==
    [bts EXCEPT ![b].total_cost = AggregateSum(shs, b)]

\* QuerySet order of Shipment (Meta.ordering = row_number) is immaterial to
\* the loops below: each iteration touches only its own row.
\* saved maps the rows a loop saves to the row each one is saved as.
MapShipments(shs, saved) ==
    [i \in DOMAIN shs |-> IF i \in DOMAIN saved THEN saved[i] ELSE shs[i]]

\* (variant: no transaction, every statement commits on its own)
atomic_autocommit(entry, reached, raised) == reached

\* with transaction.atomic(): an exception raised inside the block rolls the
\* store back to its state at entry; otherwise the state reached is committed
atomic(entry, reached, raised) == IF raised THEN entry ELSE reached

(***************************************************************************)
(* ShippingService                                                         *)
(***************************************************************************)
SeedServices ==
    << [name |-> "Priority Mail", service_type |-> "priority",
        base_price |-> 500, per_oz_rate |-> 1000, is_active |-> TRUE],
       [name |-> "Ground Shipping", service_type |-> "ground",
        base_price |-> 250, per_oz_rate |-> 500, is_active |-> TRUE],
       [name |-> "Express Shipping", service_type |-> "express",
        base_price |-> 1500, per_oz_rate |-> 2500, is_active |-> TRUE] >>

ServiceConfigs == { SeedServices, <<>> }

\* Catalogs an administrator can leave in the table: a service switched off,
\* several services of one type, rows not inserted in price order
GroundOff == [SeedServices EXCEPT ![2].is_active = FALSE]

TwoPriority ==
    << [name |-> "Priority Mail", service_type |-> "priority",
        base_price |-> 500, per_oz_rate |-> 1000, is_active |-> TRUE],
       [name |-> "Priority Flat", service_type |-> "priority",
        base_price |-> 400, per_oz_rate |-> 1000, is_active |-> TRUE],
       [name |-> "Priority Lite", service_type |-> "priority",
        base_price |-> 300, per_oz_rate |-> 1000, is_active |-> FALSE],
       [name |-> "Ground Saver", service_type |-> "ground",
        base_price |-> 200, per_oz_rate |-> 500, is_active |-> FALSE],
       [name |-> "Ground Shipping", service_type |-> "ground",
        base_price |-> 450, per_oz_rate |-> 500, is_active |-> TRUE] >>

ServiceCatalogs == ServiceConfigs \cup { GroundOff, TwoPriority }

\* A float assigned to a DecimalField(decimal_places=2) is quantized on save
\* (round half even).  x is in 1/100 cent, the result in cents.
QuantizeCents(x) ==
    LET q == x \div 100
        r == x % 100
    IN IF r > 50 \/ (r = 50 /\ q % 2 = 1) THEN q + 1 ELSE q

\* (variant: the rate charged per pound)
calculate_price_per_lb(svc, weight_oz) ==
    (svc.base_price * 100) + (svc.per_oz_rate * (weight_oz \div 16))

\* ShippingService.calculate_price, in 1/100 cent
calculate_price(svc, weight_oz) ==
    (svc.base_price * 100) + (svc.per_oz_rate * weight_oz)

\* Meta.ordering = ['base_price']; .first() of the ordered, filtered rows
\* (variant: .first() on rows in primary-key order)
FirstByBasePrice_by_id(svcs, M) ==
    IF M = {} THEN <<>>
    ELSE <<svcs[CHOOSE i \in M : \A j \in M : i <= j]>>

\* M is the set of rows the filter keeps.
FirstByBasePrice(svcs, M) ==
    IF M = {} THEN <<>>
    ELSE LET lo == CHOOSE i \in M :
                     \A j \in M : \/ svcs[i].base_price < svcs[j].base_price
                                  \/ (svcs[i].base_price = svcs[j].base_price
                                      /\ i <= j)
         IN <<svcs[lo]>>

(***************************************************************************)
(* Initial state: an empty store, users with a zero balance                *)
(***************************************************************************)
IdleReq == [pc |-> "idle"]

\* No call of AddressValidator or CSVParser has been made
NoCall == [pc |-> "none"]

\* No saved address and no saved package
NoSaved == [address |-> <<>>, package |-> <<>>]

EmptyStore ==
    /\ balance = [u \in Users |-> 0]
    /\ batches = <<>>
    /\ shipments = <<>>
    /\ purchases = <<>>
    /\ resp = NoResp
    /\ nreq = 0
    /\ req = [k \in Slots |-> IdleReq]
    /\ call = NoCall
    /\ saved_items = NoSaved

\* seed_data: the demo user is created with a balance; other users start at 0
SeedBalances ==
    { [u \in Users |-> 0],
      [u \in Users |-> IF u = "u1" THEN MaxBalance ELSE 0] }

\* No batch yet, the accounts as registration or seed_data left them
SeededStore ==
    /\ balance \in SeedBalances
    /\ batches = <<>>
    /\ shipments = <<>>
    /\ purchases = <<>>
    /\ resp = NoResp
    /\ nreq = 0
    /\ req = [k \in Slots |-> IdleReq]
    /\ call = NoCall
    /\ saved_items = NoSaved

Init ==
    /\ EmptyStore
    /\ services \in ServiceConfigs
    /\ observe = {}
    /\ vrec = NoRec

(***************************************************************************)
(* UploadCSVView.post, after CSVParser.parse returned rows                 *)
(***************************************************************************)
MaxRows == 2

RowSeqs == UNION {[1..n -> Drafts] : n \in 0..MaxRows}

Numbered(rows) == [i \in DOMAIN rows |-> [rows[i] EXCEPT !.row_number = 2 + i]]

UploadRows(b, rows) ==
    [i \in DOMAIN rows |-> validate_shipment(NewShipment(b, rows[i]))]

\* The block of the upload view on db = [batches, shipments]: statement 1
\* creates the batch as 'uploaded', statement 1 + k creates and validates
\* the shipment of the k-th row, statement n + 2 (n rows) saves the batch as
\* 'reviewing'.  failAt is the statement that raises, 0 for none
UploadBlock(db, u, rows, failAt) ==
    LET n == Len(rows)
        b == Len(db.batches) + 1
        raised == failAt \in 1..(n + 2)
        done == IF raised THEN failAt - 1 ELSE n + 2
        batch == [user |-> u,
                  status |-> IF done = n + 2 THEN "reviewing" ELSE "uploaded",
                  total_shipments |-> n, total_cost |-> 0,
                  purchased_at |-> FALSE]
        kept == IF done - 1 < n THEN done - 1 ELSE n
        reached ==
            IF done = 0 THEN db
            ELSE [batches |-> Append(db.batches, batch),
                  shipments |-> db.shipments \o SubSeq(UploadRows(b, rows), 1, kept)]
    IN atomic(db, reached, raised)

\* The view from `if not shipments_data` on, rows being what parse returned;
\* an exception of the block is answered by the outer except clause
StoreRowsAt(u, rows, failAt) ==
    /\ UNCHANGED <<balance, services, purchases, req, vrec, saved_items>>
    /\ IF rows = <<>>
       THEN /\ UNCHANGED <<batches, shipments>>
            /\ resp' = Resp("upload", u, 0,
                   validation_error("No valid shipment data found in CSV", ENone))
       ELSE /\ Len(batches) < MaxBatches
            /\ Len(shipments) + Len(rows) <= MaxShipments
            /\ LET db == UploadBlock([batches |-> batches, shipments |-> shipments],
                                     u, rows, failAt)
               IN /\ batches' = db.batches
                  /\ shipments' = db.shipments
                  /\ resp' = IF failAt \in 1..(Len(rows) + 2)
                             THEN Resp("upload", u, 0,
                                      error("Error parsing CSV", EStr("exception")))
                             ELSE Resp("upload", u, Len(batches) + 1,
                                      created("CSV uploaded and processed successfully"))

StoreRows(u, rows) == StoreRowsAt(u, rows, 0)

UploadCSV(u, rows) == StoreRows(u, Numbered(rows)) /\ UNCHANGED call

\* An upload whose block raises at statement failAt
UploadCSVAt(u, rows, failAt) ==
    StoreRowsAt(u, Numbered(rows), failAt) /\ UNCHANGED call

\* What a statement does: it returns a value or raises an exception
Return(v) == [raised |-> FALSE, value |-> v]
Raise(exc) == [raised |-> TRUE, exc |-> exc]

(***************************************************************************)
(* shipping/utils.py: CSVParser.  A file is the sequence of rows that      *)
(* csv.reader yields, the two header rows first.  A row has a number of    *)
(* columns and spans one or more text lines (a quoted cell can hold line   *)
(* breaks); its cells are written as the draft they parse to, except the   *)
(* weight_lbs cell, which is kept as text.                                 *)
(***************************************************************************)
MaxFileRows == 3

Row(columns, lines, cells, weight_lbs) ==
    [columns |-> columns, lines |-> lines, cells |-> cells,
     weight_lbs |-> weight_lbs]

HeaderRow == Row(23, 1, DraftBase, "Weight (lbs)")

DataRows ==
    { Row(0, 1, DraftBase, ""),
      Row(13, 2, DraftBase, ""),
      Row(14, 1, DraftBase, ""),
      Row(23, 1, DraftBase, "1"),
      Row(23, 2, [DraftBase EXCEPT !.to_city = ""], "abc"),
      Row(23, 1, DraftBase, "inf") }

Files ==
    {<<>>, <<HeaderRow>>}
    \cup UNION { {<<HeaderRow, HeaderRow>> \o rows : rows \in [1..n -> DataRows]} :
                  n \in 0..MaxFileRows }

\* get_numeric: int(float(value)) if value else default, ValueError and
\* TypeError giving the default; int(float("inf")) raises OverflowError
get_numeric(value) ==
    CASE value = "" -> Return(0)
      [] value = "1" -> Return(1)
      [] value = "inf" -> Raise("OverflowError")
      [] OTHER -> Return(0)

\* _parse_row: a cell beyond the end of the row reads as its default
parse_row(row, row_number) ==
    LET lbs == get_numeric(IF 14 < row.columns THEN row.weight_lbs ELSE "")
    IN IF lbs.raised THEN lbs
       ELSE Return([row.cells EXCEPT
                !.row_number = row_number,
                !.weight_lbs = lbs.value,
                !.weight_oz = IF 15 < row.columns THEN @ ELSE 0,
                !.length = IF 16 < row.columns THEN @ ELSE <<0>>,
                !.width = IF 17 < row.columns THEN @ ELSE <<0>>,
                !.height = IF 18 < row.columns THEN @ ELSE <<0>>])

\* CSVParser(csv_content): a reader at the start of the text.  earlier keeps
\* what the runs made before on the same text ended in
NewParse(file) ==
    [pc |-> "headers", file |-> file, pos |-> 1, row_number |-> 0,
     shipments |-> <<>>, earlier |-> <<>>]

\* (variant: a skipped row leaves the number as it is)
parse_step_skip_unnumbered(c) ==
    LET row == c.file[c.pos]
        r == parse_row(row, c.row_number)
    IN IF row.columns = 0 \/ row.columns < 14
       THEN [c EXCEPT !.pos = @ + 1]
       ELSE [c EXCEPT !.pos = @ + 1, !.row_number = @ + 1,
                      !.shipments = IF r.raised THEN @ ELSE Append(@, r.value)]

\* The body of `for row in self.reader`
parse_step(c) ==
    LET row == c.file[c.pos]
        r == parse_row(row, c.row_number)
    IN IF row.columns = 0 \/ row.columns < 14
       THEN [c EXCEPT !.pos = @ + 1, !.row_number = @ + 1]
       ELSE [c EXCEPT !.pos = @ + 1, !.row_number = @ + 1,
                      !.shipments = IF r.raised THEN @ ELSE Append(@, r.value)]

FrameStore ==
    UNCHANGED <<balance, services, batches, shipments, purchases, resp, observe,
                nreq, req, vrec, saved_items>>

\* next(self.reader) twice, row_number = 3; StopIteration leaves parse
\* through `except Exception: raise`
SkipHeaders ==
    /\ call.pc = "headers"
    /\ call' = IF Len(call.file) < call.pos + 1
               THEN [call EXCEPT !.pc = "raised"]
               ELSE [call EXCEPT !.pc = "rows", !.pos = @ + 2, !.row_number = 3]
    /\ FrameStore

ParseStep ==
    /\ call.pc = "rows"
    /\ call.pos <= Len(call.file)
    /\ call' = parse_step(call)
    /\ FrameStore

\* The reader is exhausted: parse returns shipments
ParseDone ==
    /\ call.pc = "rows"
    /\ call.pos > Len(call.file)
    /\ call' = [call EXCEPT !.pc = "returned"]
    /\ FrameStore

MaxParses == 2

\* How a run ended and what it returned
Outcome(c) == [pc |-> c.pc, shipments |-> c.shipments]

\* (variant: parse called again on the parser of the run before)
Reparse_same_reader(c) ==
    [c EXCEPT !.pc = "headers", !.row_number = 0, !.shipments = <<>>,
              !.earlier = Append(@, Outcome(c))]

\* CSVParser(csv_content) once more on the same text
Reparse(c) ==
    [NewParse(c.file) EXCEPT !.earlier = Append(c.earlier, Outcome(c))]

ParseAgain ==
    /\ call.pc \in {"returned", "raised"}
    /\ Len(call.earlier) + 1 < MaxParses
    /\ call' = Reparse(call)
    /\ FrameStore

\* The reader is exhausted: parse returns and the view stores the batch
ParseReturn(u) ==
    /\ call.pc = "rows"
    /\ call.pos > Len(call.file)
    /\ call' = [call EXCEPT !.pc = "returned"]
    /\ StoreRows(u, call.shipments)
    /\ UNCHANGED <<observe, nreq>>

(***************************************************************************)
(* AddBalanceView.post                                                     *)
(***************************************************************************)
Amounts == {0, 800}

AddBalance(u, amount) ==
    /\ UNCHANGED <<services, batches, shipments, purchases, req, vrec, call, saved_items>>
    /\ IF amount <= 0
       THEN /\ UNCHANGED balance
            /\ resp' = Resp("add_balance", u, 0,
                   validation_error("Amount must be greater than 0", ENone))
       ELSE /\ balance[u] + amount <= MaxBalance
            /\ balance' = [balance EXCEPT ![u] = balance[u] + amount]
            /\ resp' = Resp("add_balance", u, 0, success("Successfully added"))

(***************************************************************************)
(* ShipmentDetailView.update with ShipmentUpdateSerializer.  A patch is a  *)
(* function from the fields present in the request to their values.        *)
(***************************************************************************)
Patches ==
    { [f \in {"shipping_cost"} |-> 700],
      [f \in {"weight_lbs"} |-> 2],
      [f \in {"from_address_line1"} |-> ""],
      [f \in {"to_city"} |-> "Springfield"],
      [f \in {"to_city"} |-> ""],
      [f \in {"length"} |-> <<>>],
      [f \in {"validation_status"} |-> "valid"] }

\* ShipmentUpdateSerializer.Meta.fields, as far as the rows of the model
\* carry them: a key of the request that is not a serializer field is dropped
UpdateFields ==
    {"from_first_name", "from_last_name", "from_address_line1",
     "from_address_line2", "from_city", "from_state", "from_zip_code",
     "to_first_name", "to_last_name", "to_address_line1", "to_address_line2",
     "to_city", "to_state", "to_zip_code",
     "length", "width", "height", "weight_lbs", "weight_oz",
     "shipping_service", "shipping_cost"}

validated_data(patch) == [f \in DOMAIN patch \cap UpdateFields |-> patch[f]]

\* The model fields declared without blank=True reject an empty string
RequiredStrFields ==
    {"to_first_name", "to_address_line1", "to_city", "to_state", "to_zip_code"}

is_valid(patch) ==
    \A f \in DOMAIN patch : f \in RequiredStrFields => patch[f] # ""

\* for attr, value in validated_data.items(): setattr(instance, attr, value)
SetAttrs(s, patch) ==
    [f \in DOMAIN s |-> IF f \in DOMAIN patch THEN patch[f] ELSE s[f]]

\* ShipmentUpdateSerializer.update: setattr, save, validate_shipment
SerializerUpdate(s, patch) == validate_shipment(SetAttrs(s, validated_data(patch)))

\* get_object(): a row of Shipment.objects.filter(batch__user=request.user)
ShipmentOwned(shs, bts, u, id) ==
    /\ id \in DOMAIN shs
    /\ ActiveManager(shs[id])
    /\ bts[shs[id].batch].user = u

\* get_object() raises Http404, which only the generic handler catches
UpdateShipment(u, id, patch) ==
    /\ UNCHANGED <<balance, services, batches, purchases, req, vrec, call, saved_items>>
    /\ IF ~ShipmentOwned(shipments, batches, u, id)
       THEN /\ UNCHANGED shipments
            /\ resp' = Resp("update", u, id,
                   error("Failed to update shipment", EStr("No Shipment matches")))
       ELSE IF ~is_valid(patch)
       THEN /\ UNCHANGED shipments
            /\ resp' = Resp("update", u, id,
                   validation_error("Failed to update shipment",
                       EDict(<< <<"field", EList(<<EStr("This field may not be blank.")>>)>> >>)))
       ELSE /\ shipments' = [shipments EXCEPT ![id] = SerializerUpdate(@, patch)]
            /\ resp' = Resp("update", u, id, success("Shipment updated successfully"))

(***************************************************************************)
(* Deletion.  BaseModel.delete is soft_delete; a deleted row is invisible  *)
(* to every query the handlers make.                                      *)
(***************************************************************************)
soft_delete(s) == [s EXCEPT !.is_deleted = TRUE]

\* ShipmentDetailView.destroy: batch.total_shipments is assigned in memory,
\* calculate_total_cost saves update_fields=['total_cost', 'updated_at'] only
DestroyShipment(u, id) ==
    /\ UNCHANGED <<balance, services, purchases, req, vrec, call, saved_items>>
    /\ IF ~ShipmentOwned(shipments, batches, u, id)
       THEN /\ UNCHANGED <<shipments, batches>>
            /\ resp' = Resp("destroy", u, id,
                   error("Failed to delete shipment", EStr("No Shipment matches")))
       ELSE LET shs == [shipments EXCEPT ![id] = soft_delete(@)] IN
            /\ shipments' = shs
            /\ batches' = calculate_total_cost(batches, shs, shipments[id].batch)
            /\ resp' = Resp("destroy", u, id, success("Shipment deleted successfully"))

MaxSel == 2

\* shipment_ids of a bulk request. The views use the list only through
\* filter(id__in=shipment_ids) and len(shipment_ids), so one listing per
\* multiset of ids (the nondecreasing one) covers every ordering.
IdLists ==
    { l \in UNION {[1..n -> ShipmentIds] : n \in 0..MaxSel} :
        \A i \in 1..(Len(l) - 1) : l[i] <= l[i + 1] }

BatchesOf(shs, S) == {shs[i].batch : i \in S}

RECURSIVE RecomputeAll(_, _, _)
RecomputeAll(bts, shs, B) ==
    IF B = {} THEN bts
    ELSE LET b == CHOOSE x \in B : TRUE
         IN RecomputeAll(calculate_total_cost(bts, shs, b), shs, B \ {b})

\* BulkDeleteShipmentsView.post
BulkDelete(u, ids) ==
    /\ UNCHANGED <<balance, services, purchases, req, vrec, call, saved_items>>
    /\ LET sel == OwnedShipments(shipments, batches, u, ids) IN
       IF ids = <<>>
       THEN /\ UNCHANGED <<shipments, batches>>
            /\ resp' = Resp("bulk_delete", u, 0,
                   validation_error("No shipment IDs provided", ENone))
       ELSE IF Cardinality(sel) # Len(ids)
       THEN /\ UNCHANGED <<shipments, batches>>
            /\ resp' = Resp("bulk_delete", u, 0,
                   not_found("Some shipments not found or not accessible"))
       ELSE LET shs == MapShipments(shipments, [i \in sel |-> soft_delete(shipments[i])]) IN
            /\ shipments' = shs
            /\ batches' = RecomputeAll(batches, shs, BatchesOf(shipments, sel))
            /\ resp' = Resp("bulk_delete", u, 0, success("Deleted shipments"))

\* ClearBatchView.delete
ClearBatch(u, b) ==
    /\ UNCHANGED <<balance, services, purchases, req, vrec, call, saved_items>>
    /\ IF ~BatchOwned(batches, u, b)
       THEN /\ UNCHANGED <<shipments, batches>>
            /\ resp' = Resp("clear", u, b, not_found("Batch not found"))
       ELSE /\ shipments' = MapShipments(shipments,
                               [i \in BatchShipments(shipments, b) |->
                                   soft_delete(shipments[i])])
            /\ batches' = [batches EXCEPT ![b].total_shipments = 0,
                                          ![b].total_cost = 0]
            /\ resp' = Resp("clear", u, b, success("Deleted shipments"))

(***************************************************************************)
(* ClearBatchView.delete as the steps of one request among concurrent      *)
(* requests: the view runs outside a transaction, every query commits.     *)
(***************************************************************************)
\* ShipmentBatch.objects.get(id=id, user=request.user)
ClearGet(k, u, b) ==
    /\ req[k].pc = "idle"
    /\ UNCHANGED <<balance, services, batches, shipments, purchases, vrec, call, saved_items>>
    /\ IF ~BatchOwned(batches, u, b)
       THEN /\ UNCHANGED req
            /\ resp' = Resp("clear", u, b, not_found("Batch not found"))
       ELSE /\ req' = [req EXCEPT ![k] =
                  [pc |-> "clear_delete", user |-> u, batch |-> b,
                   row |-> batches[b]]]
            /\ UNCHANGED resp

\* batch.shipments.count(); batch.shipments.all().delete()
ClearDelete(k) ==
    /\ req[k].pc = "clear_delete"
    /\ UNCHANGED <<balance, services, batches, purchases, resp, vrec, call, saved_items>>
    /\ shipments' = MapShipments(shipments,
                        [i \in BatchShipments(shipments, req[k].batch) |->
                            soft_delete(shipments[i])])
    /\ req' = [req EXCEPT ![k].pc = "clear_save"]

\* batch.total_shipments = 0; batch.total_cost = 0.00; batch.save(): every
\* field of the row as this request read it is written
ClearSave(k) ==
    /\ req[k].pc = "clear_save"
    /\ UNCHANGED <<balance, services, shipments, purchases, vrec, call, saved_items>>
    /\ LET r == req[k] IN
       /\ batches' = [batches EXCEPT ![r.batch] =
                         [r.row EXCEPT !.total_shipments = 0, !.total_cost = 0]]
       /\ req' = [req EXCEPT ![k] = IdleReq]
       /\ resp' = Resp("clear", r.user, r.batch, success("Deleted shipments"))

(***************************************************************************)
(* ValidateAddressesView.post.  What validator.validate_address returns    *)
(* depends on the settings and on the providers; here a call's outcome is  *)
(* that a validator returned valid: true, that every one of them down to   *)
(* the heuristic returned valid: false, or that the call raised.           *)
(***************************************************************************)
ValidationOutcomes == {"valid", "invalid", "raised"}
SaveOutcomes == {"saved", "raised"}

\* The rows of batch.shipments.all() that the for loop has not visited: the
\* queryset is evaluated once, when the loop starts, into c.snapshot
Remaining(c) == {i \in DOMAIN c.snapshot : i > c.pos}

\* An exception leaves the body of the loop: from the to-address call, else
\* from the from-address call, else from shipment.save()
BodyRaises(sh, to_out, from_out, save_out) ==
    LET to_raised == StrTruthy(sh.to_address_line1) /\ to_out = "raised"
        from_raised ==
            ~to_raised /\ StrTruthy(sh.from_address_line1) /\ from_out = "raised"
    IN to_raised \/ from_raised \/ save_out = "raised"

\* The in-memory shipment when save() is reached: a flag is set when the
\* address has a first line and its validation returned valid: true, and is
\* assigned nowhere else
ValidatedRow(sh, to_out, from_out) ==
    [sh EXCEPT
       !.to_address_validated =
           @ \/ (StrTruthy(sh.to_address_line1) /\ to_out = "valid"),
       !.from_address_validated =
           @ \/ (StrTruthy(sh.from_address_line1) /\ from_out = "valid")]

\* What the loop's log keeps of one iteration
LogRow(id, sh, to_out, from_out, raised) ==
    [shipment |-> id,
     to |-> IF StrTruthy(sh.to_address_line1) THEN to_out ELSE "skipped",
     from |-> IF StrTruthy(sh.from_address_line1) THEN from_out ELSE "skipped",
     raised |-> raised,
     saved |-> ~raised,
     to_address_validated |->
         ~raised /\ ValidatedRow(sh, to_out, from_out).to_address_validated,
     from_address_validated |->
         ~raised /\ ValidatedRow(sh, to_out, from_out).from_address_validated]

\* (variant: the body of the loop without its try/except)
validate_one_no_try(c, id, sh, to_out, from_out, save_out) ==
    LET raised == BodyRaises(sh, to_out, from_out, save_out)
        to_called == StrTruthy(sh.to_address_line1)
    IN [c EXCEPT
          !.pc = IF raised THEN "aborted" ELSE "loop",
          !.pos = id,
          !.validated_count = @ + (IF to_called /\ to_out = "valid" THEN 1 ELSE 0),
          !.failed_count = @ + (IF to_called /\ to_out = "invalid" THEN 1 ELSE 0),
          !.rows = Append(@, LogRow(id, sh, to_out, from_out, raised))]

\* The body of the for loop for one shipment: the to-address is validated
\* when it has a first line, then the from-address, then shipment.save();
\* an exception from any of the three is caught and counted as a failure
validate_one(c, id, sh, to_out, from_out, save_out) ==
    LET raised == BodyRaises(sh, to_out, from_out, save_out)
        to_called == StrTruthy(sh.to_address_line1)
    IN [c EXCEPT
          !.pos = id,
          !.validated_count = @ + (IF to_called /\ to_out = "valid" THEN 1 ELSE 0),
          !.failed_count = @ + (IF to_called /\ to_out = "invalid" THEN 1 ELSE 0)
                             + (IF raised THEN 1 ELSE 0),
          !.rows = Append(@, LogRow(id, sh, to_out, from_out, raised))]

\* ShipmentBatch.objects.get(id=id, user=request.user); the counters start
\* and the loop's queryset is evaluated
ValidateBegin(u, b) ==
    /\ call.pc \in {"none", "complete"}
    /\ UNCHANGED <<balance, services, batches, shipments, purchases, req, vrec,
                   saved_items>>
    /\ IF ~BatchOwned(batches, u, b)
       THEN /\ UNCHANGED call
            /\ resp' = Resp("validate_addresses", u, b, not_found("Batch not found"))
       ELSE /\ call' = [pc |-> "loop", user |-> u, batch |-> b, pos |-> 0,
                        validated_count |-> 0, failed_count |-> 0, rows |-> <<>>,
                        snapshot |-> [i \in BatchShipments(shipments, b) |->
                                         shipments[i]]]
            /\ UNCHANGED resp

\* One iteration of the loop: shipment.save() writes every field of the
\* object the loop holds.  An exception that leaves the loop is answered by
\* the handler's outer except clause
ValidateStep(to_out, from_out, save_out) ==
    /\ call.pc = "loop"
    /\ Remaining(call) # {}
    /\ UNCHANGED <<balance, services, batches, purchases, req, vrec,
                   nreq, observe, saved_items>>
    /\ LET id == CHOOSE i \in Remaining(call) : \A j \in Remaining(call) : i <= j
           sh == call.snapshot[id]
       IN /\ call' = validate_one(call, id, sh, to_out, from_out, save_out)
          /\ shipments' = IF BodyRaises(sh, to_out, from_out, save_out)
                          THEN shipments
                          ELSE [shipments EXCEPT ![id] =
                                   ValidatedRow(sh, to_out, from_out)]
    /\ resp' = IF call'.pc = "aborted"
               THEN Resp("validate_addresses", call.user, call.batch,
                         error("Failed to validate addresses", EStr("exception")))
               ELSE resp

\* The loop is over: the counts are returned
ValidateDone ==
    /\ call.pc = "loop"
    /\ Remaining(call) = {}
    /\ UNCHANGED <<balance, services, batches, shipments, purchases, req, vrec,
                   nreq, observe, saved_items>>
    /\ call' = [call EXCEPT !.pc = "complete"]
    /\ resp' = Resp("validate_addresses", call.user, call.batch,
                    success("Address validation complete"))

(***************************************************************************)
(* account: SetDefaultAddressView.post and SetDefaultPackageView.post, the *)
(* same code over SavedAddress and SavedPackage.  Neither view opens a     *)
(* transaction, so each query of a request commits on its own and the      *)
(* queries of concurrent requests interleave.  A row also records which    *)
(* request made it the default: began and done are the numbers of requests *)
(* that had arrived when that request arrived and when it wrote the row.   *)
(***************************************************************************)
MaxSaved == 3
MaxDefaultRequests == 2

Kinds == {"address", "package"}
SavedIds == 1..MaxSaved

\* The rows of one table: the last belongs to u2, the others to u1; row d,
\* if any, is the default
SavedRows(d) ==
    [i \in SavedIds |->
        [user |-> IF i = MaxSaved THEN "u2" ELSE "u1", is_default |-> i = d,
         began |-> 0, done |-> 0]]

\* (variant: no other row is cleared)
ClearOthers_none(tbl, u, id) == tbl

\* objects.filter(user=user, is_default=True).exclude(id=id)
\*        .update(is_default=False)
ClearOthers(tbl, u, id) ==
    [i \in DOMAIN tbl |->
        IF tbl[i].user = u /\ tbl[i].is_default /\ i # id
        THEN [tbl[i] EXCEPT !.is_default = FALSE]
        ELSE tbl[i]]

\* objects.get(id=id, user=request.user)
SetDefaultGet(k, kind, u, id) ==
    /\ req[k].pc = "idle"
    /\ UNCHANGED <<balance, services, batches, shipments, purchases, vrec, call,
                   saved_items>>
    /\ IF ~(id \in DOMAIN saved_items[kind] /\ saved_items[kind][id].user = u)
       THEN /\ UNCHANGED req
            /\ resp' = Resp("set_default", u, id, not_found("Saved item not found"))
       ELSE /\ req' = [req EXCEPT ![k] =
                  [pc |-> "view_clear", kind |-> kind, user |-> u, item |-> id,
                   row |-> saved_items[kind][id], began |-> nreq']]
            /\ UNCHANGED resp

\* The view's own filter(...).exclude(id=address.id).update(is_default=False),
\* then address.is_default = True
SetDefaultViewClear(k) ==
    /\ req[k].pc = "view_clear"
    /\ UNCHANGED <<balance, services, batches, shipments, purchases, resp, vrec,
                   call>>
    /\ saved_items' = [saved_items EXCEPT ![req[k].kind] =
                          ClearOthers(@, req[k].user, req[k].item)]
    /\ req' = [req EXCEPT ![k].pc = "save_clear", ![k].row.is_default = TRUE]

\* address.save(): `if self.is_default:` and the update of the model's save
SetDefaultSaveClear(k) ==
    /\ req[k].pc = "save_clear"
    /\ UNCHANGED <<balance, services, batches, shipments, purchases, resp, vrec,
                   call>>
    /\ saved_items' = [saved_items EXCEPT ![req[k].kind] =
                          IF req[k].row.is_default
                          THEN ClearOthers(@, req[k].user, req[k].item)
                          ELSE @]
    /\ req' = [req EXCEPT ![k].pc = "save_write"]

\* super().save(): the row is written as the request holds it
SetDefaultSaveWrite(k) ==
    /\ req[k].pc = "save_write"
    /\ UNCHANGED <<balance, services, batches, shipments, purchases, vrec, call>>
    /\ LET r == req[k] IN
       /\ saved_items' = [saved_items EXCEPT ![r.kind][r.item] =
                             [r.row EXCEPT !.began = r.began, !.done = nreq]]
       /\ resp' = Resp("set_default", r.user, r.item, success("Default set successfully"))
    /\ req' = [req EXCEPT ![k] = IdleReq]

(***************************************************************************)
(* CalculateCostsView.post                                                 *)
(***************************************************************************)
\* ShippingService.objects.filter(is_active=True)
ActiveServices(svcs) == {i \in DOMAIN svcs : svcs[i].is_active}

AssignService(svc, s) ==
    [s EXCEPT !.shipping_service = svc.name,
              !.shipping_cost = QuantizeCents(calculate_price(svc, total_weight_oz(s)))]

\* (variant: every shipment of the batch is priced, whatever its status)
CostIfValid_any_status(svc, s) == AssignService(svc, s)

CostIfValid(svc, s) ==
    IF s.validation_status = "valid" THEN AssignService(svc, s) ELSE s

CalculateCosts(u, b) ==
    /\ UNCHANGED <<balance, services, purchases, req, vrec, call, saved_items>>
    /\ LET default_service == FirstByBasePrice(services, ActiveServices(services)) IN
       IF ~BatchOwned(batches, u, b)
       THEN /\ UNCHANGED <<shipments, batches>>
            /\ resp' = Resp("calculate_costs", u, b, not_found("Batch not found"))
       ELSE IF default_service = <<>>
       THEN /\ UNCHANGED <<shipments, batches>>
            /\ resp' = Resp("calculate_costs", u, b,
                   validation_error("No shipping services available", ENone))
       ELSE LET svc == default_service[1]
                shs == MapShipments(shipments,
                           [i \in BatchShipments(shipments, b) |->
                               CostIfValid(svc, shipments[i])])
            IN /\ shipments' = shs
               /\ batches' = calculate_total_cost(batches, shs, b)
               /\ resp' = Resp("calculate_costs", u, b,
                      success("Shipping costs calculated"))

(***************************************************************************)
(* Bulk mutations: BulkUpdateAddressView, BulkUpdatePackageView,           *)
(* BulkUpdateShippingServiceView                                           *)
(***************************************************************************)
AddressBase ==
    [address_line1 |-> "5 Elm St", city |-> "Pomona", state |-> "CA",
     zip_code |-> "91766"]

\* first_name, last_name and address_line2 are optional in the payload
AddressPayloads ==
    { AddressBase,
      [f \in DOMAIN AddressBase \cup {"first_name"} |->
          IF f = "first_name" THEN "Bob" ELSE AddressBase[f]] }

\* data.get(key, '')
GetOr(data, key, default) == IF key \in DOMAIN data THEN data[key] ELSE default

SetAddress(s, address_type, data) ==
    IF address_type = "from"
    THEN [s EXCEPT !.from_first_name = GetOr(data, "first_name", ""),
                   !.from_last_name = GetOr(data, "last_name", ""),
                   !.from_address_line1 = data["address_line1"],
                   !.from_address_line2 = GetOr(data, "address_line2", ""),
                   !.from_city = data["city"],
                   !.from_state = data["state"],
                   !.from_zip_code = data["zip_code"]]
    ELSE [s EXCEPT !.to_first_name = GetOr(data, "first_name", ""),
                   !.to_last_name = GetOr(data, "last_name", ""),
                   !.to_address_line1 = data["address_line1"],
                   !.to_address_line2 = GetOr(data, "address_line2", ""),
                   !.to_city = data["city"],
                   !.to_state = data["state"],
                   !.to_zip_code = data["zip_code"]]

BulkAddressRow(s, address_type, data) ==
    validate_shipment(SetAddress(s, address_type, data))

\* The first n rows of the selection in the order the loop takes them
LoopPrefix(sel, n) == {i \in sel : Cardinality({j \in sel : j < i}) < n}

\* The loop of the address and package views: for each selected row, save()
\* (statement 2k-1) and validate_shipment() (statement 2k).  The rows in the
\* store when statement failAt raises; failAt = 0: the loop runs to its end.
BulkLoop(shs, sel, saved, validated, failAt) ==
    IF failAt = 0 THEN MapShipments(shs, validated)
    ELSE LET k == (failAt + 1) \div 2
             done == LoopPrefix(sel, k - 1)
             half == IF failAt % 2 = 0 THEN LoopPrefix(sel, k) \ done ELSE {}
         IN [i \in DOMAIN shs |->
                IF i \in done THEN validated[i]
                ELSE IF i \in half THEN saved[i] ELSE shs[i]]

\* The request, and the statement that raised in the run that handled it
BulkRequest(ids, payload, failAt) ==
    [shipment_ids |-> ids, payload |-> payload, raised_at |-> failAt]

BulkUpdateAddress(u, ids, address_type, data, failAt) ==
    /\ UNCHANGED <<balance, services, batches, purchases, req, vrec, call, saved_items>>
    /\ LET sel == OwnedShipments(shipments, batches, u, ids)
           request == BulkRequest(ids, [address_type |-> address_type, data |-> data],
                                  failAt)
           raised == failAt \in 1..(2 * Cardinality(sel))
           saved == [i \in sel |-> SetAddress(shipments[i], address_type, data)]
           validated == [i \in sel |-> BulkAddressRow(shipments[i], address_type, data)]
       IN IF Cardinality(sel) # Len(ids)
          THEN /\ UNCHANGED shipments
               /\ resp' = Resp("bulk_address", u, request,
                      not_found("Some shipments not found or not accessible"))
          ELSE /\ shipments' = atomic(shipments,
                                  BulkLoop(shipments, sel, saved, validated,
                                           IF raised THEN failAt ELSE 0),
                                  raised)
               /\ resp' = Resp("bulk_address", u, request,
                      IF raised
                      THEN error("Failed to update addresses", EStr("exception"))
                      ELSE success("Updated address"))

PackagePayloads ==
    { [length |-> <<600>>, width |-> <<400>>, height |-> <<200>>,
       weight_lbs |-> 2, weight_oz |-> 0],
      [length |-> <<0>>, width |-> <<400>>, height |-> <<200>>,
       weight_lbs |-> 0, weight_oz |-> 0],
      [length |-> <<600>>, width |-> <<400>>, height |-> <<200>>,
       weight_lbs |-> -1, weight_oz |-> 16] }

SetPackage(s, data) ==
    [s EXCEPT !.length = data.length, !.width = data.width,
              !.height = data.height, !.weight_lbs = data.weight_lbs,
              !.weight_oz = data.weight_oz]

\* (variant: the row is saved without the validate_shipment call)
BulkPackageRow_no_revalidate(s, data) == SetPackage(s, data)

BulkPackageRow(s, data) == validate_shipment(SetPackage(s, data))

BulkUpdatePackage(u, ids, data, failAt) ==
    /\ UNCHANGED <<balance, services, batches, purchases, req, vrec, call, saved_items>>
    /\ LET sel == OwnedShipments(shipments, batches, u, ids)
           request == BulkRequest(ids, data, failAt)
           raised == failAt \in 1..(2 * Cardinality(sel))
           saved == [i \in sel |-> SetPackage(shipments[i], data)]
           validated == [i \in sel |-> BulkPackageRow(shipments[i], data)]
       IN IF Cardinality(sel) # Len(ids)
          THEN /\ UNCHANGED shipments
               /\ resp' = Resp("bulk_package", u, request,
                      not_found("Some shipments not found or not accessible"))
          ELSE /\ shipments' = atomic(shipments,
                                  BulkLoop(shipments, sel, saved, validated,
                                           IF raised THEN failAt ELSE 0),
                                  raised)
               /\ resp' = Resp("bulk_package", u, request,
                      IF raised
                      THEN error("Failed to update package details", EStr("exception"))
                      ELSE success("Updated package"))

ServiceActions == {"cheapest", "priority", "ground"}

ResolveService(svcs, action) ==
    IF action = "cheapest"
    THEN FirstByBasePrice(svcs, ActiveServices(svcs))
    ELSE FirstByBasePrice(svcs, {i \in ActiveServices(svcs) :
                                    svcs[i].service_type = action})

\* The block of the service view on db = [shipments, batches]: save() of each
\* selected row (statement k), then calculate_total_cost() of each batch of
\* the selection (statement n + 1 for n selected rows)
ServiceBlock(db, sel, svc, failAt) ==
    LET n == Cardinality(sel)
        assigned == [i \in sel |-> AssignService(svc, db.shipments[i])]
        all == MapShipments(db.shipments, assigned)
        raised == failAt \in 1..(n + 1)
        reached ==
            IF raised
            THEN [db EXCEPT !.shipments =
                     MapShipments(@, [i \in LoopPrefix(sel, failAt - 1) |-> assigned[i]])]
            ELSE [shipments |-> all,
                  batches |-> RecomputeAll(db.batches, all, BatchesOf(db.shipments, sel))]
    IN atomic(db, reached, raised)

BulkUpdateShippingService(u, ids, action, failAt) ==
    /\ UNCHANGED <<balance, services, purchases, req, vrec, call, saved_items>>
    /\ LET sel == OwnedShipments(shipments, batches, u, ids)
           service == ResolveService(services, action)
           request == BulkRequest(ids, action, failAt)
       IN IF Cardinality(sel) # Len(ids)
          THEN /\ UNCHANGED <<shipments, batches>>
               /\ resp' = Resp("bulk_service", u, request,
                      not_found("Some shipments not found or not accessible"))
          ELSE IF service = <<>>
          THEN /\ UNCHANGED <<shipments, batches>>
               /\ resp' = Resp("bulk_service", u, request,
                      not_found("No shipping service available"))
          ELSE LET db == ServiceBlock([shipments |-> shipments, batches |-> batches],
                                      sel, service[1], failAt)
               IN /\ shipments' = db.shipments
                  /\ batches' = db.batches
                  /\ resp' = Resp("bulk_service", u, request,
                         IF failAt \in 1..(Cardinality(sel) + 1)
                         THEN error("Failed to update shipping service",
                                    EStr("exception"))
                         ELSE success("Updated shipping service"))

(***************************************************************************)
(* CreatePurchaseView.post                                                 *)
(***************************************************************************)
TermsErrors ==
    EDict(<< <<"terms_accepted",
               EList(<<EStr("You must accept the terms and conditions")>>)>> >>)

InsufficientErrors(total_cost, account_balance) ==
    EDict(<< <<"required", ENum(total_cost)>>,
             <<"available", ENum(account_balance)>> >>)

InvalidRequest == validation_error("Invalid request data", TermsErrors)
NoShipments == validation_error("Batch has no shipments", ENone)
Insufficient(total_cost, account_balance) ==
    validation_error("Insufficient account balance",
                     InsufficientErrors(total_cost, account_balance))
PurchaseFailed == error("Failed to process purchase", EStr("exception"))
Purchased == created("Labels purchased successfully")

\* LabelPurchase.objects.create(...)
NewPurchase(u, b, total_cost, shipment_count, terms) ==
    [batch |-> b, user |-> u, total_amount |-> total_cost,
     total_labels |-> shipment_count, terms_accepted |-> terms]

\* The three statements of the block, on db = [balance, purchases, batches].
\* user_balance and row are the request's in-memory User and ShipmentBatch;
\* save() writes the in-memory values.  failAt = k > 0: statement k raises.
FailPoints == 0..3

\* calculate_total_cost returns "total or 0.00": the Decimal sum, or the float
\* 0.00 when the sum is None or zero.  request.user.account_balance -= total_cost
\* with a Decimal balance and a float total raises TypeError
DebitRaises(total_cost) == total_cost = 0

\* failAt = k > 0: statement k of the block raises for a reason of its own
BlockRaises(total_cost, failAt) == failAt # 0 \/ DebitRaises(total_cost)

\* (variant: the debit taken from the stored balance, F('account_balance') - total_cost)
PurchaseBlock_stored_balance(db, u, b, user_balance, row, shipment_count, terms, failAt) ==
    LET total_cost == row.total_cost
        d1 == [db EXCEPT !.balance[u] = @ - total_cost]
        d2 == [d1 EXCEPT !.purchases =
                  Append(@, NewPurchase(u, b, total_cost, shipment_count, terms))]
        d3 == [d2 EXCEPT !.batches[b] =
                  [row EXCEPT !.status = "purchased", !.purchased_at = TRUE]]
        reached == CASE failAt = 1 \/ DebitRaises(total_cost) -> db
                     [] failAt = 2 -> d1
                     [] failAt = 3 -> d2
                     [] OTHER -> d3
    IN atomic(db, reached, BlockRaises(total_cost, failAt))

PurchaseBlock(db, u, b, user_balance, row, shipment_count, terms, failAt) ==
    LET total_cost == row.total_cost
        d1 == [db EXCEPT !.balance[u] = user_balance - total_cost]
        d2 == [d1 EXCEPT !.purchases =
                  Append(@, NewPurchase(u, b, total_cost, shipment_count, terms))]
        d3 == [d2 EXCEPT !.batches[b] =
                  [row EXCEPT !.status = "purchased", !.purchased_at = TRUE]]
        reached == CASE failAt = 1 \/ DebitRaises(total_cost) -> db
                     [] failAt = 2 -> d1
                     [] failAt = 3 -> d2
                     [] OTHER -> d3
    IN atomic(db, reached, BlockRaises(total_cost, failAt))

\* The request body as the handler reads it
PurchaseRequest(b, terms) == [batch_id |-> b, terms_accepted |-> terms]

\* (variant: the shipment count tested before the request body is validated)
PurchaseVerdict_shipments_first(terms, owned, shipment_count, account_balance, total_cost) ==
    IF owned /\ shipment_count = 0 THEN "no_shipments"
    ELSE IF ~terms THEN "invalid_request"
    ELSE IF ~owned THEN "not_found"
    ELSE IF account_balance < total_cost THEN "insufficient"
    ELSE "ok"

\* The checks of the handler in the order it makes them; each returns early
PurchaseVerdict(terms, owned, shipment_count, account_balance, total_cost) ==
    IF ~terms THEN "invalid_request"
    ELSE IF ~owned THEN "not_found"
    ELSE IF shipment_count = 0 THEN "no_shipments"
    ELSE IF account_balance < total_cost THEN "insufficient"
    ELSE "ok"

\* The whole handler, run without interleaving: request.user is the row read
\* when the request was authenticated
CreatePurchase(u, b, terms, failAt) ==
    LET owned == BatchOwned(batches, u, b)
        shipment_count == Cardinality(BatchShipments(shipments, b))
        bts == IF owned THEN calculate_total_cost(batches, shipments, b) ELSE batches
        total_cost == IF owned THEN bts[b].total_cost ELSE 0
        verdict == PurchaseVerdict(terms, owned, shipment_count, balance[u], total_cost)
        request == PurchaseRequest(b, terms)
    IN
    /\ UNCHANGED <<services, shipments, req, vrec, call, saved_items>>
    /\ CASE verdict = "invalid_request" ->
              /\ UNCHANGED <<balance, purchases, batches>>
              /\ resp' = Resp("purchase", u, request, InvalidRequest)
         [] verdict = "not_found" ->
              /\ UNCHANGED <<balance, purchases, batches>>
              /\ resp' = Resp("purchase", u, request, not_found("Batch not found"))
         [] verdict = "no_shipments" ->
              /\ UNCHANGED <<balance, purchases, batches>>
              /\ resp' = Resp("purchase", u, request, NoShipments)
         [] verdict = "insufficient" ->
              /\ UNCHANGED <<balance, purchases>>
              /\ batches' = bts
              /\ resp' = Resp("purchase", u, request,
                              Insufficient(total_cost, balance[u]))
         [] OTHER ->
              LET db == [balance |-> balance, purchases |-> purchases,
                         batches |-> bts]
                  out == PurchaseBlock(db, u, b, balance[u], bts[b],
                                       shipment_count, terms, failAt)
              IN /\ Len(purchases) < MaxPurchases
                 /\ balance' = out.balance
                 /\ purchases' = out.purchases
                 /\ batches' = out.batches
                 /\ resp' = Resp("purchase", u, request,
                        IF BlockRaises(total_cost, failAt)
                        THEN PurchaseFailed ELSE Purchased)

(***************************************************************************)
(* CreatePurchaseView.post as the steps of one request among concurrent    *)
(* requests.  Each step is one query or one commit.  The block makes blind *)
(* writes only, so its effects appear together at its commit.              *)
(***************************************************************************)
\* authentication loads request.user; the serializer validates the body
PurchaseBegin(k, u, b, terms) ==
    /\ req[k].pc = "idle"
    /\ UNCHANGED <<balance, services, batches, shipments, purchases, vrec, call, saved_items>>
    /\ IF ~terms
       THEN /\ UNCHANGED req
            /\ resp' = Resp("purchase", u, PurchaseRequest(b, terms), InvalidRequest)
       ELSE /\ req' = [req EXCEPT ![k] =
                  [pc |-> "get_batch", user |-> u, batch |-> b, terms |-> terms,
                   user_balance |-> balance[u]]]
            /\ UNCHANGED resp

\* ShipmentBatch.objects.get(id=batch_id, user=request.user)
PurchaseGetBatch(k) ==
    /\ req[k].pc = "get_batch"
    /\ UNCHANGED <<balance, services, batches, shipments, purchases, vrec, call, saved_items>>
    /\ LET r == req[k] IN
       IF ~BatchOwned(batches, r.user, r.batch)
       THEN /\ req' = [req EXCEPT ![k] = IdleReq]
            /\ resp' = Resp("purchase", r.user, PurchaseRequest(r.batch, r.terms), not_found("Batch not found"))
       ELSE /\ req' = [req EXCEPT ![k] =
                  [pc |-> "count", user |-> r.user, batch |-> r.batch,
                   terms |-> r.terms, user_balance |-> r.user_balance,
                   row |-> batches[r.batch]]]
            /\ UNCHANGED resp

\* batch.shipments.count()
PurchaseCount(k) ==
    /\ req[k].pc = "count"
    /\ UNCHANGED <<balance, services, batches, shipments, purchases, vrec, call, saved_items>>
    /\ LET r == req[k]
           shipment_count == Cardinality(BatchShipments(shipments, r.batch))
       IN IF shipment_count = 0
          THEN /\ req' = [req EXCEPT ![k] = IdleReq]
               /\ resp' = Resp("purchase", r.user, PurchaseRequest(r.batch, r.terms), NoShipments)
          ELSE /\ req' = [req EXCEPT ![k] =
                     [pc |-> "recompute", user |-> r.user, batch |-> r.batch,
                      terms |-> r.terms, user_balance |-> r.user_balance,
                      row |-> r.row, shipment_count |-> shipment_count]]
               /\ UNCHANGED resp

\* batch.calculate_total_cost(), then the balance check on the in-memory user
PurchaseRecompute(k) ==
    /\ req[k].pc = "recompute"
    /\ UNCHANGED <<balance, services, shipments, purchases, vrec, call, saved_items>>
    /\ LET r == req[k]
           bts == calculate_total_cost(batches, shipments, r.batch)
           total_cost == bts[r.batch].total_cost
       IN /\ batches' = bts
          /\ IF r.user_balance < total_cost
             THEN /\ req' = [req EXCEPT ![k] = IdleReq]
                  /\ resp' = Resp("purchase", r.user, PurchaseRequest(r.batch, r.terms),
                                  Insufficient(total_cost, r.user_balance))
             ELSE /\ req' = [req EXCEPT ![k] =
                        [pc |-> "commit", user |-> r.user, batch |-> r.batch,
                         terms |-> r.terms, user_balance |-> r.user_balance,
                         row |-> [r.row EXCEPT !.total_cost = total_cost],
                         shipment_count |-> r.shipment_count]]
                  /\ UNCHANGED resp

\* the atomic block commits
PurchaseCommit(k) ==
    /\ req[k].pc = "commit"
    /\ Len(purchases) < MaxPurchases
    /\ UNCHANGED <<services, shipments, vrec, call, saved_items>>
    /\ LET r == req[k]
           db == [balance |-> balance, purchases |-> purchases, batches |-> batches]
           out == PurchaseBlock(db, r.user, r.batch, r.user_balance, r.row,
                                r.shipment_count, r.terms, 0)
       IN /\ balance' = out.balance
          /\ purchases' = out.purchases
          /\ batches' = out.batches
          /\ req' = [req EXCEPT ![k] = IdleReq]
          /\ resp' = Resp("purchase", r.user, PurchaseRequest(r.batch, r.terms),
                 IF BlockRaises(r.row.total_cost, 0) THEN PurchaseFailed ELSE Purchased)

(***************************************************************************)
(* shipping/utils.py: AddressValidator.  A call is followed statement by   *)
(* statement: call.pc is the if statement reached, call.invoked the        *)
(* validators invoked so far and call.results what each of them returned.  *)
(***************************************************************************)
\* AddressValidator.__init__: each credential of the settings is set or not
Settings ==
    [SMARTY_AUTH_ID : BOOLEAN, SMARTY_AUTH_TOKEN : BOOLEAN,
     GOOGLE_MAPS_API_KEY : BOOLEAN, USPS_USER_ID : BOOLEAN]

Providers == {"smarty", "google", "usps"}

\* (variant: Smarty tried as soon as the auth id is set)
Configured_id_only(cfg, p) ==
    CASE p = "smarty" -> cfg.SMARTY_AUTH_ID
      [] p = "google" -> cfg.GOOGLE_MAPS_API_KEY
      [] OTHER -> cfg.USPS_USER_ID

\* The conditions of the three if statements of validate_address
Configured(cfg, p) ==
    CASE p = "smarty" -> cfg.SMARTY_AUTH_ID /\ cfg.SMARTY_AUTH_TOKEN
      [] p = "google" -> cfg.GOOGLE_MAPS_API_KEY
      [] OTHER -> cfg.USPS_USER_ID

\* (variant: the heuristic right after Smarty)
NextProvider_heuristic(p) ==
    CASE p = "google" -> "usps"
      [] OTHER -> "basic"

\* The statement that follows the if statement of provider p
NextProvider(p) ==
    CASE p = "smarty" -> "google"
      [] p = "google" -> "usps"
      [] OTHER -> "basic"

\* The dictionaries the validators return; "" stands for a key that is absent
InvalidResult(service, err) ==
    [error |-> err, service |-> service, valid |-> FALSE, confidence |-> "",
     warning |-> ""]

ValidResult(service, confidence, warning) ==
    [error |-> "", service |-> service, valid |-> TRUE, confidence |-> confidence,
     warning |-> warning]

\* What the HTTP request of a provider can do: time out, fail in transport,
\* or answer with a status and a body
Timeout == [kind |-> "timeout"]
TransportError == [kind |-> "transport"]
Response(status, body) == [kind |-> "response", status |-> status, body |-> body]

SmartyResponses ==
    {Timeout, TransportError}
    \cup {Response(200, b) : b \in {"not_json", "not_a_list", "empty_list",
                                     "dpv_Y", "dpv_S", "dpv_D", "dpv_N"}}
    \cup {Response(st, "") : st \in {401, 402, 500}}

GoogleResponses ==
    {Timeout, TransportError}
    \cup {Response(200, b) : b \in {"not_json", "not_an_object", "PREMISE",
                                     "SUB_PREMISE", "ROUTE"}}
    \cup {Response(403, "")}

UspsResponses ==
    {Timeout, TransportError}
    \cup {Response(200, b) : b \in {"<Error>", "<Address>"}}
    \cup {Response(500, "")}

\* requests.get / requests.post with timeout=10
Request(r) ==
    CASE r.kind = "timeout" -> Raise("Timeout")
      [] r.kind = "transport" -> Raise("ConnectionError")
      [] OTHER -> Return(r)

\* The try block of _validate_with_smarty
smarty_try(r) ==
    IF Request(r).raised THEN Request(r)
    ELSE IF r.status = 200
    THEN CASE r.body = "not_json" -> Raise("JSONDecodeError")
           [] r.body = "not_a_list" -> Raise("KeyError")
           [] r.body = "empty_list" ->
                Return(InvalidResult("smarty", "No matching addresses found"))
           [] r.body = "dpv_Y" -> Return(ValidResult("smarty", "high", ""))
           [] r.body \in {"dpv_S", "dpv_D"} ->
                Return(ValidResult("smarty", "medium", ""))
           [] OTHER -> Return(InvalidResult("smarty", "Address not deliverable"))
    ELSE IF r.status = 401
    THEN Return(InvalidResult("smarty", "Authentication failed"))
    ELSE IF r.status = 402
    THEN Return(InvalidResult("smarty", "Payment required (free tier limit)"))
    ELSE Return(InvalidResult("smarty", "API error"))

\* (variant: without the last except clause)
validate_with_smarty_two_excepts(r) ==
    LET t == smarty_try(r)
    IN IF ~t.raised THEN t
       ELSE IF t.exc = "Timeout"
       THEN Return(InvalidResult("smarty", "Request timeout"))
       ELSE IF t.exc = "ConnectionError"
       THEN Return(InvalidResult("smarty", "Request error"))
       ELSE t

\* _validate_with_smarty: except Timeout, except RequestException, except
\* Exception (str(e) is written as the name of the exception)
validate_with_smarty(r) ==
    LET t == smarty_try(r)
    IN IF ~t.raised THEN t
       ELSE IF t.exc = "Timeout"
       THEN Return(InvalidResult("smarty", "Request timeout"))
       ELSE IF t.exc = "ConnectionError"
       THEN Return(InvalidResult("smarty", "Request error"))
       ELSE Return(InvalidResult("smarty", t.exc))

\* The try block of _validate_with_google
google_try(r) ==
    IF Request(r).raised THEN Request(r)
    ELSE IF r.status = 200
    THEN CASE r.body = "not_json" -> Raise("JSONDecodeError")
           [] r.body = "not_an_object" -> Raise("AttributeError")
           [] r.body = "PREMISE" -> Return(ValidResult("google", "high", ""))
           [] r.body = "SUB_PREMISE" -> Return(ValidResult("google", "medium", ""))
           [] OTHER -> Return(InvalidResult("google",
                                            "Insufficient validation granularity"))
    ELSE Return(InvalidResult("google", "API error"))

\* _validate_with_google: except Exception
validate_with_google(r) ==
    LET t == google_try(r)
    IN IF t.raised THEN Return(InvalidResult("google", t.exc)) ELSE t

\* The try block of _validate_with_usps
usps_try(r) ==
    IF Request(r).raised THEN Request(r)
    ELSE IF r.status = 200
    THEN IF r.body = "<Error>"
         THEN Return(InvalidResult("usps", "USPS validation error"))
         ELSE Return(ValidResult("usps", "medium", ""))
    ELSE Return(InvalidResult("usps", "API error"))

\* _validate_with_usps: except Exception
validate_with_usps(r) ==
    LET t == usps_try(r)
    IN IF t.raised THEN Return(InvalidResult("usps", t.exc)) ELSE t

\* An address: line1 and city are strings, state and zip_code are written
\* character by character
NotHyphen(c) == c # "-"

\* _basic_validation
basic_validation(a) ==
    IF ~(StrTruthy(a.address_line1) /\ StrTruthy(a.city) /\ a.state # <<>>
            /\ a.zip_code # <<>>)
    THEN InvalidResult("basic", "Missing required address fields")
    ELSE IF Len(a.state) # 2
    THEN InvalidResult("basic", "Invalid state code")
    ELSE LET zip_clean == SelectSeq(a.zip_code, NotHyphen)
         IN IF ~(Len(zip_clean) = 5 \/ Len(zip_clean) = 9)
            THEN InvalidResult("basic", "Invalid ZIP code format")
            ELSE ValidResult("basic", "low",
                     "Validated with basic rules only - full API validation unavailable")

StateVals ==
    { <<>>, <<"I", "L">>, <<"I">>, <<"I", "L", "L">>, <<"1", "2">> }

ZipVals ==
    { <<>>, <<"6", "2", "7", "0", "4">>,
      <<"6", "2", "7", "0", "4", "-", "1", "2", "3", "4">>,
      <<"6", "2", "7", "0">>,
      <<"6", "2", "7", "0", "4", "-", "1", "2">>,
      <<"A", "B", "C", "D", "E">> }

Addresses ==
    [address_line1 : {"", "1 Main St"}, city : {"", "Springfield"},
     state : StateVals, zip_code : ZipVals]

NewCall(cfg, a) ==
    [pc |-> "smarty", cfg |-> cfg, addr |-> a, invoked |-> <<>>,
     results |-> <<>>]

FrameCall ==
    UNCHANGED <<balance, services, batches, shipments, purchases, resp, observe,
                nreq, req, vrec, saved_items>>

\* An if statement of validate_address whose condition holds: the provider
\* is invoked; a valid result is returned, any other falls through
Invoke(p, out) ==
    /\ call.pc = p
    /\ Configured(call.cfg, p)
    /\ call' = IF out.raised
               THEN [call EXCEPT !.pc = "raised", !.invoked = Append(@, p)]
               ELSE [call EXCEPT !.pc = IF out.value.valid THEN "done"
                                        ELSE NextProvider(p),
                                 !.invoked = Append(@, p),
                                 !.results = Append(@, out.value)]
    /\ FrameCall

TrySmarty(r) == Invoke("smarty", validate_with_smarty(r))
TryGoogle(r) == Invoke("google", validate_with_google(r))
TryUsps(r) == Invoke("usps", validate_with_usps(r))

\* An if statement whose condition fails: the else branch logs a warning
NotConfigured(p) ==
    /\ call.pc = p
    /\ ~Configured(call.cfg, p)
    /\ call' = [call EXCEPT !.pc = NextProvider(p)]
    /\ FrameCall

\* return self._basic_validation(...)
Fallback ==
    /\ call.pc = "basic"
    /\ call' = [call EXCEPT !.pc = "done",
                            !.invoked = Append(@, "basic"),
                            !.results = Append(@, basic_validation(call.addr))]
    /\ FrameCall

(***************************************************************************)
(* Validator harness                                                       *)
(***************************************************************************)
MaxRuns == 2

HarnessValidate ==
    /\ vrec.runs < MaxRuns
    /\ vrec' = [ran |-> TRUE, rec |-> validate_shipment(vrec.rec),
                runs |-> vrec.runs + 1]
    /\ UNCHANGED <<balance, services, batches, shipments, purchases, resp, req,
                   call, saved_items>>

HarnessAssign(patch) ==
    /\ vrec.ran
    /\ vrec' = [ran |-> FALSE, rec |-> SetAttrs(vrec.rec, patch), runs |-> 0]
    /\ UNCHANGED <<balance, services, batches, shipments, purchases, resp, req,
                   call, saved_items>>

(***************************************************************************)
(* Specifications                                                          *)
(***************************************************************************)
MaxRequests == 2
MaxPurchaseRequests == 4

Handled == nreq' = nreq + 1 /\ UNCHANGED observe

\* The handlers that change balances, batches, shipments and purchases, with
\* requests handled one at a time
Next ==
    /\ nreq < MaxRequests
    /\ Handled
    /\ \/ \E u \in Users, rows \in RowSeqs : UploadCSV(u, rows)
       \/ \E u \in Users, a \in Amounts : AddBalance(u, a)
       \/ \E u \in Users, id \in ShipmentIds, p \in Patches : UpdateShipment(u, id, p)
       \/ \E u \in Users, id \in ShipmentIds : DestroyShipment(u, id)
       \/ \E u \in Users, ids \in IdLists : BulkDelete(u, ids)
       \/ \E u \in Users, b \in BatchIds : ClearBatch(u, b)
       \/ \E u \in Users, b \in BatchIds : CalculateCosts(u, b)
       \/ \E u \in Users, ids \in IdLists, t \in {"from", "to"}, d \in AddressPayloads :
             BulkUpdateAddress(u, ids, t, d, 0)
       \/ \E u \in Users, ids \in IdLists, d \in PackagePayloads :
             BulkUpdatePackage(u, ids, d, 0)
       \/ \E u \in Users, ids \in IdLists, a \in ServiceActions :
             BulkUpdateShippingService(u, ids, a, 0)
       \/ \E u \in Users, b \in BatchIds, t \in BOOLEAN, f \in FailPoints :
             CreatePurchase(u, b, t, f)

Spec == Init /\ [][Next]_vars

\* The purchase handler and the handlers that prepare a purchase, with the
\* purchase responses recorded
InitPurchase ==
    /\ SeededStore
    /\ services = SeedServices
    /\ observe = {"purchase"}
    /\ vrec = NoRec

NextPurchase ==
    /\ nreq < MaxPurchaseRequests
    /\ Handled
    /\ \/ \E u \in Users, rows \in RowSeqs : UploadCSV(u, rows)
       \/ \E u \in Users, a \in Amounts : AddBalance(u, a)
       \/ \E u \in Users, b \in BatchIds : CalculateCosts(u, b)
       \/ \E u \in Users, id \in ShipmentIds : DestroyShipment(u, id)
       \/ \E u \in Users, b \in BatchIds, t \in BOOLEAN, f \in FailPoints :
             CreatePurchase(u, b, t, f)

SpecPurchase == InitPurchase /\ [][NextPurchase]_vars

\* Purchase requests interleaved step by step
Arrives == nreq < MaxPurchaseRequests /\ Handled
Continues == UNCHANGED <<nreq, observe>>

NextConc ==
    \/ \E u \in Users, rows \in RowSeqs : Arrives /\ UploadCSV(u, rows)
    \/ \E u \in Users, a \in Amounts : Arrives /\ AddBalance(u, a)
    \/ \E u \in Users, b \in BatchIds : Arrives /\ CalculateCosts(u, b)
    \/ \E k \in Slots, u \in Users, b \in BatchIds, t \in BOOLEAN :
          Arrives /\ PurchaseBegin(k, u, b, t)
    \/ \E k \in Slots : Continues /\ PurchaseGetBatch(k)
    \/ \E k \in Slots : Continues /\ PurchaseCount(k)
    \/ \E k \in Slots : Continues /\ PurchaseRecompute(k)
    \/ \E k \in Slots : Continues /\ PurchaseCommit(k)

SpecConc == InitPurchase /\ [][NextConc]_vars

\* The validator applied to every combination of field values
InitValidator ==
    /\ EmptyStore
    /\ services = SeedServices
    /\ observe = {}
    /\ vrec \in {[ran |-> FALSE, rec |-> NewShipment(0, d), runs |-> 0] :
                    d \in HarnessInputs}

NextValidator ==
    /\ UNCHANGED <<nreq, observe>>
    /\ \/ HarnessValidate
       \/ \E p \in Patches : HarnessAssign(p)

SpecValidator == InitValidator /\ [][NextValidator]_vars

\* The three bulk mutations, with a statement of the block raising or not.
\* The store is prepared by requests that are not recorded; then one bulk
\* request is handled and its response recorded.
MaxBulkRequests == 2

BulkOps == {"bulk_address", "bulk_package", "bulk_service"}

BulkFailPoints == 0..3

\* Uploads of rows that carry a weight: a valid and an invalid kind of record
WeighedRowSeqs ==
    {rows \in RowSeqs : \A i \in DOMAIN rows : rows[i].weight_lbs # 0}

Watch ==
    /\ observe = {}
    /\ observe' = BulkOps
    /\ UNCHANGED <<balance, services, batches, shipments, purchases, resp, nreq,
                   req, vrec, call, saved_items>>

Preparing(budget) == observe = {} /\ nreq < budget /\ Handled

Watched == observe # {} /\ resp.op = "none" /\ Handled

InitBulk ==
    /\ EmptyStore
    /\ services = SeedServices
    /\ observe = {}
    /\ vrec = NoRec

NextBulk ==
    \/ \E u \in Users, rows \in WeighedRowSeqs :
          Preparing(MaxRequests) /\ UploadCSV(u, rows)
    \/ Watch
    \/ \E u \in Users, ids \in IdLists, f \in BulkFailPoints :
          Watched /\ BulkUpdateAddress(u, ids, "to", AddressBase, f)
    \/ \E u \in Users, ids \in IdLists, d \in PackagePayloads, f \in BulkFailPoints :
          Watched /\ d.weight_lbs = 2 /\ BulkUpdatePackage(u, ids, d, f)
    \/ \E u \in Users, ids \in IdLists, f \in BulkFailPoints :
          Watched /\ BulkUpdateShippingService(u, ids, "cheapest", f)

SpecBulk == InitBulk /\ [][NextBulk]_vars

\* The bulk mutations after uploads and single-shipment updates
NextBulkTotals ==
    \/ \E u \in Users, rows \in RowSeqs :
          Preparing(MaxBulkRequests) /\ UploadCSV(u, rows)
    \/ \E u \in Users, id \in ShipmentIds, p \in Patches :
          Preparing(MaxBulkRequests) /\ UpdateShipment(u, id, p)
    \/ Watch
    \/ \E u \in Users, ids \in IdLists, t \in {"from", "to"}, d \in AddressPayloads :
          Watched /\ BulkUpdateAddress(u, ids, t, d, 0)
    \/ \E u \in Users, ids \in IdLists, d \in PackagePayloads :
          Watched /\ BulkUpdatePackage(u, ids, d, 0)
    \/ \E u \in Users, ids \in IdLists, a \in ServiceActions :
          Watched /\ BulkUpdateShippingService(u, ids, a, 0)

SpecBulkTotals == InitBulk /\ [][NextBulkTotals]_vars

\* Service reassignment over the catalogs, on stores prepared by uploads
InitService ==
    /\ EmptyStore
    /\ services \in ServiceCatalogs
    /\ observe = {}
    /\ vrec = NoRec

NextService ==
    \/ \E u \in Users, rows \in WeighedRowSeqs :
          Preparing(MaxRequests) /\ UploadCSV(u, rows)
    \/ Watch
    \/ \E u \in Users, ids \in IdLists, a \in ServiceActions :
          Watched /\ BulkUpdateShippingService(u, ids, a, 0)

SpecService == InitService /\ [][NextService]_vars

\* One validate_address call for every setting of the credentials and every
\* address, each provider answering in every way
InitAddress ==
    /\ balance = [u \in Users |-> 0]
    /\ batches = <<>>
    /\ shipments = <<>>
    /\ purchases = <<>>
    /\ resp = NoResp
    /\ nreq = 0
    /\ req = [k \in Slots |-> IdleReq]
    /\ services = SeedServices
    /\ observe = {}
    /\ vrec = NoRec
    /\ call \in {NewCall(cfg, a) : cfg \in Settings, a \in Addresses}
    /\ saved_items = NoSaved

NextAddress ==
    \/ \E r \in SmartyResponses : TrySmarty(r)
    \/ \E r \in GoogleResponses : TryGoogle(r)
    \/ \E r \in UspsResponses : TryUsps(r)
    \/ \E p \in Providers : NotConfigured(p)
    \/ Fallback

SpecAddress == InitAddress /\ [][NextAddress]_vars

\* One upload for every file, followed row by row
InitParse ==
    /\ balance = [u \in Users |-> 0]
    /\ batches = <<>>
    /\ shipments = <<>>
    /\ purchases = <<>>
    /\ resp = NoResp
    /\ nreq = 0
    /\ req = [k \in Slots |-> IdleReq]
    /\ services = SeedServices
    /\ observe = {"upload"}
    /\ vrec = NoRec
    /\ call \in {NewParse(file) : file \in Files}
    /\ saved_items = NoSaved

NextParse ==
    \/ SkipHeaders
    \/ ParseStep
    \/ \E u \in Users : ParseReturn(u)

SpecParse == InitParse /\ [][NextParse]_vars

\* The handlers that create batches, save them or delete their shipments,
\* an upload block raising at any of its statements
MaxLifecycleRequests == 4

UploadFailPoints == 0..(MaxRows + 2)

InitLifecycle ==
    /\ SeededStore
    /\ services = SeedServices
    /\ observe = {}
    /\ vrec = NoRec

NextLifecycle ==
    /\ nreq < MaxLifecycleRequests
    /\ Handled
    /\ \/ \E u \in Users, rows \in RowSeqs, f \in UploadFailPoints :
             UploadCSVAt(u, rows, f)
       \/ \E u \in Users, b \in BatchIds : CalculateCosts(u, b)
       \/ \E u \in Users, id \in ShipmentIds : DestroyShipment(u, id)
       \/ \E u \in Users, ids \in IdLists : BulkDelete(u, ids)
       \/ \E u \in Users, b \in BatchIds : ClearBatch(u, b)
       \/ \E u \in Users, b \in BatchIds, t \in BOOLEAN, f \in FailPoints :
             CreatePurchase(u, b, t, f)

SpecLifecycle == InitLifecycle /\ [][NextLifecycle]_vars

\* One recorded request of any kind on a store that uploads and purchases of
\* both users prepared
OwnerOps ==
    {"update", "destroy", "bulk_delete", "clear", "calculate_costs",
     "bulk_address", "bulk_package", "bulk_service", "purchase"}

WatchOwner ==
    /\ observe = {}
    /\ observe' = OwnerOps
    /\ UNCHANGED <<balance, services, batches, shipments, purchases, resp, nreq,
                   req, vrec, call, saved_items>>

NextOwner ==
    \/ \E u \in Users, rows \in WeighedRowSeqs :
          Preparing(MaxRequests) /\ UploadCSV(u, rows)
    \/ \E u \in Users, b \in BatchIds :
          Preparing(MaxRequests) /\ CreatePurchase(u, b, TRUE, 0)
    \/ WatchOwner
    \/ \E u \in Users, id \in ShipmentIds, p \in Patches :
          Watched /\ UpdateShipment(u, id, p)
    \/ \E u \in Users, id \in ShipmentIds : Watched /\ DestroyShipment(u, id)
    \/ \E u \in Users, ids \in IdLists : Watched /\ BulkDelete(u, ids)
    \/ \E u \in Users, b \in BatchIds : Watched /\ ClearBatch(u, b)
    \/ \E u \in Users, b \in BatchIds : Watched /\ CalculateCosts(u, b)
    \/ \E u \in Users, ids \in IdLists :
          Watched /\ BulkUpdateAddress(u, ids, "to", AddressBase, 0)
    \/ \E u \in Users, ids \in IdLists, d \in PackagePayloads :
          Watched /\ d.weight_lbs = 2 /\ BulkUpdatePackage(u, ids, d, 0)
    \/ \E u \in Users, ids \in IdLists :
          Watched /\ BulkUpdateShippingService(u, ids, "cheapest", 0)
    \/ \E u \in Users, b \in BatchIds : Watched /\ CreatePurchase(u, b, TRUE, 0)

SpecOwner == InitBulk /\ [][NextOwner]_vars

\* Service assignment and the mutations of the package fields and of the cost
MaxCostRequests == 3

NextCost ==
    /\ nreq < MaxCostRequests
    /\ Handled
    /\ \/ \E u \in Users, rows \in WeighedRowSeqs : UploadCSV(u, rows)
       \/ \E u \in Users, b \in BatchIds : CalculateCosts(u, b)
       \/ \E u \in Users, ids \in IdLists, a \in ServiceActions :
             BulkUpdateShippingService(u, ids, a, 0)
       \/ \E u \in Users, id \in ShipmentIds, p \in Patches : UpdateShipment(u, id, p)
       \/ \E u \in Users, ids \in IdLists, d \in PackagePayloads :
             BulkUpdatePackage(u, ids, d, 0)

SpecCost == InitBulk /\ [][NextCost]_vars

\* Validate-addresses runs and address updates, one request at a time
MaxFlagRequests == 3

BetweenRequests == call.pc # "loop" /\ nreq < MaxFlagRequests /\ Handled

NextFlags ==
    \/ \E u \in Users, rows \in RowSeqs : BetweenRequests /\ UploadCSV(u, rows)
    \/ \E u \in Users, b \in BatchIds : BetweenRequests /\ ValidateBegin(u, b)
    \/ \E t \in ValidationOutcomes, f \in ValidationOutcomes, s \in SaveOutcomes :
          ValidateStep(t, f, s)
    \/ ValidateDone
    \/ \E u \in Users, id \in ShipmentIds, p \in Patches :
          BetweenRequests /\ UpdateShipment(u, id, p)
    \/ \E u \in Users, ids \in IdLists, t \in {"from", "to"} :
          BetweenRequests /\ BulkUpdateAddress(u, ids, t, AddressBase, 0)

SpecFlags == InitBulk /\ [][NextFlags]_vars

\* One validate-addresses request on a store that uploads prepared
WatchValidate ==
    /\ observe = {}
    /\ observe' = {"validate_addresses"}
    /\ UNCHANGED <<balance, services, batches, shipments, purchases, resp, nreq,
                   req, vrec, call, saved_items>>

NextValidate ==
    \/ \E u \in Users, rows \in RowSeqs :
          Preparing(MaxRequests) /\ UploadCSV(u, rows)
    \/ WatchValidate
    \/ \E u \in Users, b \in BatchIds : Watched /\ ValidateBegin(u, b)
    \/ \E t \in ValidationOutcomes, f \in ValidationOutcomes, s \in SaveOutcomes :
          ValidateStep(t, f, s)
    \/ ValidateDone

SpecValidate == InitBulk /\ [][NextValidate]_vars

\* Set-default requests of both kinds interleaved step by step, on tables in
\* which no row or the first row is the default
InitDefault ==
    /\ balance = [u \in Users |-> 0]
    /\ batches = <<>>
    /\ shipments = <<>>
    /\ purchases = <<>>
    /\ resp = NoResp
    /\ nreq = 0
    /\ req = [k \in Slots |-> IdleReq]
    /\ services = SeedServices
    /\ observe = {}
    /\ vrec = NoRec
    /\ call = NoCall
    /\ saved_items \in {[address |-> SavedRows(d), package |-> SavedRows(d)] :
                           d \in 0..1}

NextDefault ==
    \/ \E k \in Slots, kind \in Kinds, u \in Users, id \in SavedIds :
          nreq < MaxDefaultRequests /\ Handled /\ SetDefaultGet(k, kind, u, id)
    \/ \E k \in Slots : Continues /\ SetDefaultViewClear(k)
    \/ \E k \in Slots : Continues /\ SetDefaultSaveClear(k)
    \/ \E k \in Slots : Continues /\ SetDefaultSaveWrite(k)

SpecDefault == InitDefault /\ [][NextDefault]_vars

\* Uploads, purchases and batch clears interleaved step by step
ArrivesLifecycle == nreq < MaxLifecycleRequests /\ Handled

NextLifecycleConc ==
    \/ \E u \in Users, rows \in RowSeqs, f \in UploadFailPoints :
          ArrivesLifecycle /\ UploadCSVAt(u, rows, f)
    \/ \E u \in Users, b \in BatchIds : ArrivesLifecycle /\ CalculateCosts(u, b)
    \/ \E k \in Slots, u \in Users, b \in BatchIds, t \in BOOLEAN :
          ArrivesLifecycle /\ PurchaseBegin(k, u, b, t)
    \/ \E k \in Slots : Continues /\ PurchaseGetBatch(k)
    \/ \E k \in Slots : Continues /\ PurchaseCount(k)
    \/ \E k \in Slots : Continues /\ PurchaseRecompute(k)
    \/ \E k \in Slots : Continues /\ PurchaseCommit(k)
    \/ \E k \in Slots, u \in Users, b \in BatchIds :
          ArrivesLifecycle /\ ClearGet(k, u, b)
    \/ \E k \in Slots : Continues /\ ClearDelete(k)
    \/ \E k \in Slots : Continues /\ ClearSave(k)

SpecLifecycleConc == InitLifecycle /\ [][NextLifecycleConc]_vars

\* service.calculate_price(shipment.total_weight_oz) on its own: the two
\* objects as the call leaves them and the value it returns
PriceCall ==
    /\ call.pc = "price"
    /\ call' = [pc |-> "priced", service |-> call.service,
                shipment |-> call.shipment,
                value |-> <<calculate_price(call.service,
                                            total_weight_oz(call.shipment))>>]
    /\ FrameStore

PriceWeights == (0..3) \X {0, 8, 15, 16}

InitPrice ==
    /\ balance = [u \in Users |-> 0]
    /\ batches = <<>>
    /\ shipments = <<>>
    /\ purchases = <<>>
    /\ resp = NoResp
    /\ nreq = 0
    /\ req = [k \in Slots |-> IdleReq]
    /\ services = SeedServices
    /\ observe = {}
    /\ vrec = NoRec
    /\ call \in {[pc |-> "price", service |-> svc,
                   shipment |-> NewShipment(1, [DraftBase EXCEPT !.weight_lbs = w[1],
                                                                 !.weight_oz = w[2]]),
                   value |-> <<>>] :
                     svc \in Range(SeedServices) \cup Range(TwoPriority),
                     w \in PriceWeights}
    /\ saved_items = NoSaved

NextPrice == PriceCall

SpecPrice == InitPrice /\ [][NextPrice]_vars

\* The parser alone, run again and again on the text it was first given
NextReparse ==
    \/ SkipHeaders
    \/ ParseStep
    \/ ParseDone
    \/ ParseAgain

SpecReparse == InitParse /\ [][NextReparse]_vars

(***************************************************************************)
(* Properties                                                              *)
(***************************************************************************)
\* The sum of shipping_cost and the number of the current shipments of a
\* batch, read off the shipments table row by row
CurrentCostSum(b) ==
    SumSeq([i \in DOMAIN shipments |->
               IF shipments[i].batch = b /\ ~shipments[i].is_deleted
               THEN shipments[i].shipping_cost ELSE 0])

CurrentCount(b) ==
    SumSeq([i \in DOMAIN shipments |->
               IF shipments[i].batch = b /\ ~shipments[i].is_deleted
               THEN 1 ELSE 0])

PurchasesOf(b) == {i \in DOMAIN purchases : purchases[i].batch = b}

\* The step just taken handled a purchase request (its response is resp')
PurchaseHandled == nreq' = nreq + 1 /\ resp'.op = "purchase"

StatusUnchanged ==
    \A b \in DOMAIN batches :
        /\ batches'[b].status = batches[b].status
        /\ batches'[b].purchased_at = batches[b].purchased_at

\* C1: after every mutating operation, each batch's stored total_cost equals
\* the sum of shipping_cost over the batch's current (non-deleted) shipments.
C1_TotalCostIsSum ==
    \A b \in DOMAIN batches : batches[b].total_cost = CurrentCostSum(b)

\* C2: once a batch has a Purchase, every later purchase request for that
\* batch fails: it debits nothing, creates no Purchase and does not set the
\* status again.
C2_LaterPurchaseFails ==
    [][ (PurchaseHandled /\ PurchasesOf(resp'.target.batch_id) # {})
          => /\ resp'.code # HTTP_201_CREATED
             /\ balance' = balance
             /\ purchases' = purchases
             /\ StatusUnchanged ]_vars

\* C3: with purchase requests for the same batch interleaved step by step,
\* at most one of them succeeds: no batch ever has two Purchase records.
C3_ConcurrentPurchaseOnce ==
    \A b \in DOMAIN batches : Cardinality(PurchasesOf(b)) <= 1

\* C4: a successful purchase debits the requester by exactly the batch's
\* recomputed total, creates one Purchase with that total and the current
\* shipment count, and marks the batch purchased with a timestamp; a purchase
\* that fails inside the block persists none of these effects.
C4_PurchaseAtomic ==
    [][ PurchaseHandled =>
          LET u == resp'.user
              b == resp'.target.batch_id
          IN /\ resp'.code = HTTP_201_CREATED =>
                  /\ balance' = [balance EXCEPT ![u] = @ - CurrentCostSum(b)]
                  /\ purchases' = Append(purchases,
                         [batch |-> b, user |-> u,
                          total_amount |-> CurrentCostSum(b),
                          total_labels |-> CurrentCount(b),
                          terms_accepted |-> TRUE])
                  /\ batches'[b].status = "purchased"
                  /\ batches'[b].purchased_at
                  /\ \A c \in DOMAIN batches \ {b} : batches'[c] = batches[c]
             /\ resp'.code = HTTP_400_BAD_REQUEST =>
                  /\ balance' = balance
                  /\ purchases' = purchases
                  /\ StatusUnchanged ]_vars

C4_Witness ==
    /\ resp.op = "purchase"
    /\ resp.code = HTTP_201_CREATED
    /\ purchases # <<>>
    /\ purchases[Len(purchases)].total_amount > 0
    /\ purchases[Len(purchases)].total_labels = 2

\* The numbers an errors payload carries
RECURSIVE PayloadNumbers(_)
PayloadNumbers(e) ==
    CASE e.kind \in {"repr", "num"} -> {e.val}
      [] e.kind = "list" -> UNION {PayloadNumbers(e.val[i]) : i \in DOMAIN e.val}
      [] e.kind = "dict" -> UNION {PayloadNumbers(e.val[i][2]) : i \in DOMAIN e.val}
      [] OTHER -> {}

\* C5: a purchase request whose requester balance is below the recomputed
\* total is rejected as a validation failure (422) whose payload carries both
\* the required and the available amount, and leaves the balance, the
\* Purchase records and the batch status unchanged.
C5_InsufficientReportsBoth ==
    [][ PurchaseHandled =>
          LET u == resp'.user
              b == resp'.target.batch_id
          IN ( /\ resp'.target.terms_accepted
               /\ BatchOwned(batches, u, b)
               /\ CurrentCount(b) > 0
               /\ balance[u] < CurrentCostSum(b) )
             => /\ resp'.code = HTTP_422_UNPROCESSABLE_ENTITY
                /\ {CurrentCostSum(b), balance[u]} \subseteq PayloadNumbers(resp'.errors)
                /\ balance' = balance
                /\ purchases' = purchases
                /\ StatusUnchanged ]_vars

\* The failure the handler reports: the message of its response
FailureOf(r) == r.message

\* C6 as claimed: the preconditions are checked in the order shipments,
\* terms, balance, and the first violated one is the failure reported.
C6_OrderAsClaimed ==
    [][ PurchaseHandled =>
          LET u == resp'.user
              b == resp'.target.batch_id
          IN BatchOwned(batches, u, b) =>
               IF CurrentCount(b) = 0
               THEN FailureOf(resp') = "Batch has no shipments"
               ELSE IF ~resp'.target.terms_accepted
               THEN FailureOf(resp') = "Invalid request data"
               ELSE IF balance[u] < CurrentCostSum(b)
               THEN FailureOf(resp') = "Insufficient account balance"
               ELSE TRUE ]_vars

\* C6 as amended: the preconditions are checked in the order terms, shipments,
\* balance, and the first violated one is the failure reported.
C6_OrderTermsFirst ==
    [][ PurchaseHandled =>
          LET u == resp'.user
              b == resp'.target.batch_id
          IN BatchOwned(batches, u, b) =>
               IF ~resp'.target.terms_accepted
               THEN /\ FailureOf(resp') = "Invalid request data"
                    /\ resp'.code = HTTP_422_UNPROCESSABLE_ENTITY
               ELSE IF CurrentCount(b) = 0
               THEN /\ FailureOf(resp') = "Batch has no shipments"
                    /\ resp'.code = HTTP_422_UNPROCESSABLE_ENTITY
               ELSE IF balance[u] < CurrentCostSum(b)
               THEN /\ FailureOf(resp') = "Insufficient account balance"
                    /\ resp'.code = HTTP_422_UNPROCESSABLE_ENTITY
               ELSE resp'.code \in {HTTP_201_CREATED, HTTP_400_BAD_REQUEST} ]_vars

\* a request that violates two preconditions at once has been answered
C6_Witness ==
    /\ resp.op = "purchase"
    /\ ~resp.target.terms_accepted
    /\ BatchOwned(batches, resp.user, resp.target.batch_id)
    /\ CurrentCount(resp.target.batch_id) = 0
    /\ resp.code = HTTP_422_UNPROCESSABLE_ENTITY

\* C7: every batch has at most one Purchase record, and a batch that has a
\* Purchase record has status Purchased.
C7_OnePurchasePerBatch ==
    \A b \in DOMAIN batches :
        /\ Cardinality(PurchasesOf(b)) <= 1
        /\ PurchasesOf(b) # {} => batches[b].status = "purchased"

RecipientFields ==
    {"to_first_name", "to_address_line1", "to_city", "to_state", "to_zip_code"}

MissingRequired(r) == {f \in RecipientFields : r[f] = ""}

\* C9: the status is Invalid exactly when one of the five recipient fields
\* is missing, with one error per missing field; otherwise Warning exactly
\* when there is a warning; otherwise Valid. Warnings never change the status
\* of a record that has errors.
C9_StatusFromErrorsThenWarnings ==
    vrec.ran =>
      LET r == vrec.rec
          missing == MissingRequired(r)
      IN /\ (r.validation_status = "invalid") <=> (missing # {})
         /\ Len(r.validation_errors) = Cardinality(missing)
         /\ Cardinality(Range(r.validation_errors)) = Cardinality(missing)
         /\ missing = {} =>
               ((r.validation_status = "warning") <=> (r.validation_warnings # <<>>))
         /\ (missing = {} /\ r.validation_warnings = <<>>) =>
               r.validation_status = "valid"
         /\ r.validation_status \in {"invalid", "warning", "valid"}

C9_Witness ==
    /\ vrec.ran
    /\ Cardinality(MissingRequired(vrec.rec)) = 2
    /\ vrec.rec.validation_warnings # <<>>
    /\ vrec.rec.validation_status = "invalid"

\* A dimension that holds no value: NULL, or the 0 a blank cell is stored as
DimensionMissing(d) == d = <<>> \/ d[1] = 0

\* C10: the validator warns exactly for a missing sender address, for a
\* missing dimension, and for a zero total weight weight_lbs*16 + weight_oz,
\* whatever integers weight_lbs and weight_oz hold.
C10_WarningsExact ==
    vrec.ran =>
      LET r == vrec.rec
          w == Range(r.validation_warnings)
      IN /\ ("Sender address is missing" \in w) <=> (r.from_address_line1 = "")
         /\ ("Package dimensions are missing" \in w) <=>
               (DimensionMissing(r.length) \/ DimensionMissing(r.width)
                   \/ DimensionMissing(r.height))
         /\ ("Package weight is zero or missing" \in w) <=>
               (r.weight_lbs * 16 + r.weight_oz = 0)

\* C11: running the validator again on a record whose fields did not change
\* yields the same status, errors and warnings as the run before it.
C11_ValidatorIdempotent ==
    [][ (vrec.ran /\ vrec'.runs = vrec.runs + 1) =>
          /\ vrec'.rec.validation_status = vrec.rec.validation_status
          /\ vrec'.rec.validation_errors = vrec.rec.validation_errors
          /\ vrec'.rec.validation_warnings = vrec.rec.validation_warnings ]_vars

\* the validator has run twice in a row on a record with errors and warnings
C11_Witness ==
    /\ vrec.runs = 2
    /\ vrec.rec.validation_errors # <<>>
    /\ vrec.rec.validation_warnings # <<>>

\* The step just taken handled a bulk mutation (its response is resp')
BulkHandled == nreq' = nreq + 1 /\ resp'.op \in BulkOps

\* id names a shipment of the store that is not deleted and belongs to u
Resolves(u, id) ==
    /\ id \in DOMAIN shipments
    /\ ~shipments[id].is_deleted
    /\ batches[shipments[id].batch].user = u

\* C12: a bulk address, package or service mutation whose selection holds an
\* identifier that does not resolve to a shipment owned by the requester is
\* rejected and changes no shipment and no batch.
C12_BulkAllOrNothing ==
    [][ (/\ BulkHandled
         /\ \E k \in DOMAIN resp'.target.shipment_ids :
               ~Resolves(resp'.user, resp'.target.shipment_ids[k]))
          => /\ resp'.code # HTTP_200_OK
             /\ shipments' = shipments
             /\ batches' = batches ]_vars

\* a selection of one identifier that resolves and one that does not was
\* rejected
C12_Witness ==
    /\ resp.op \in BulkOps
    /\ resp.code = HTTP_404_NOT_FOUND
    /\ \E k \in DOMAIN resp.target.shipment_ids :
          Resolves(resp.user, resp.target.shipment_ids[k])
    /\ \E k \in DOMAIN resp.target.shipment_ids :
          ~Resolves(resp.user, resp.target.shipment_ids[k])

\* C13: a bulk mutation in which a statement fails after some of the selected
\* records were rewritten (answered 400) leaves every shipment and every batch
\* as it was before the request.
C13_BulkIsOneUnit ==
    [][ (BulkHandled /\ resp'.code = HTTP_400_BAD_REQUEST)
          => /\ resp'.target.raised_at # 0
             /\ shipments' = shipments
             /\ batches' = batches ]_vars

\* a run failed after the first of two selected records had been rewritten
C13_Witness ==
    /\ resp.op \in BulkOps
    /\ resp.code = HTTP_400_BAD_REQUEST
    /\ Len(resp.target.shipment_ids) = 2
    /\ resp.target.shipment_ids[1] # resp.target.shipment_ids[2]
    /\ \/ resp.op = "bulk_service" /\ resp.target.raised_at \in {2, 3}
       \/ resp.op # "bulk_service" /\ resp.target.raised_at \in {2, 3}

\* The patch of a bulk request as it shows in a record
PatchApplied(op, payload, s) ==
    CASE op = "bulk_address" ->
           IF payload.address_type = "to"
           THEN /\ s.to_address_line1 = payload.data.address_line1
                /\ s.to_city = payload.data.city
                /\ s.to_state = payload.data.state
                /\ s.to_zip_code = payload.data.zip_code
           ELSE /\ s.from_address_line1 = payload.data.address_line1
                /\ s.from_city = payload.data.city
                /\ s.from_state = payload.data.state
                /\ s.from_zip_code = payload.data.zip_code
      [] op = "bulk_package" ->
           /\ s.length = payload.length /\ s.width = payload.width
           /\ s.height = payload.height /\ s.weight_lbs = payload.weight_lbs
           /\ s.weight_oz = payload.weight_oz
      [] OTHER -> s.shipping_service # ""

\* The sum of shipping_cost over the current shipments of batch b in shs
CostSumIn(shs, b) ==
    SumSeq([i \in DOMAIN shs |->
               IF shs[i].batch = b /\ ~shs[i].is_deleted
               THEN shs[i].shipping_cost ELSE 0])

\* C14: a successful bulk address, package or service mutation leaves every
\* selected record patched and holding the validator's output, and leaves the
\* total of every batch that contains a selected record recomputed.
C14_BulkPatchValidateRecompute ==
    [][ (BulkHandled /\ resp'.code = HTTP_200_OK) =>
          \A i \in Range(resp'.target.shipment_ids) :
             LET v == validate_shipment(shipments'[i])
             IN /\ PatchApplied(resp'.op, resp'.target.payload, shipments'[i])
                /\ shipments'[i].validation_status = v.validation_status
                /\ shipments'[i].validation_errors = v.validation_errors
                /\ shipments'[i].validation_warnings = v.validation_warnings
                /\ batches'[shipments'[i].batch].total_cost =
                      CostSumIn(shipments', shipments'[i].batch) ]_vars

\* The active services an action may resolve to: all of them for cheapest,
\* those of the named type for priority and ground
Candidates(action) ==
    {i \in DOMAIN services :
        /\ services[i].is_active
        /\ action = "cheapest" \/ services[i].service_type = action}

\* C15: a successful service reassignment gives every selected shipment the
\* candidate service with the lowest base price (never an inactive one), and
\* a reassignment without a candidate changes no shipment.
C15_ServiceResolution ==
    [][ (BulkHandled /\ resp'.op = "bulk_service") =>
          LET cands == Candidates(resp'.target.payload)
          IN /\ resp'.code = HTTP_200_OK =>
                  \E i \in cands :
                     /\ \A j \in cands : services[i].base_price <= services[j].base_price
                     /\ \A k \in Range(resp'.target.shipment_ids) :
                           shipments'[k].shipping_service = services[i].name
             /\ cands = {} =>
                  /\ resp'.code # HTTP_200_OK
                  /\ shipments' = shipments ]_vars

\* priority was resolved in a catalog that holds a cheaper inactive priority
\* service and a dearer active one
C15_Witness ==
    /\ resp.op = "bulk_service"
    /\ resp.code = HTTP_200_OK
    /\ resp.target.payload = "priority"
    /\ resp.target.shipment_ids # <<>>
    /\ \E i, j \in DOMAIN services :
          /\ services[i].service_type = "priority" /\ ~services[i].is_active
          /\ services[j].service_type = "priority" /\ services[j].is_active
          /\ services[i].base_price < services[j].base_price
          /\ \E k \in Range(resp.target.shipment_ids) :
                shipments[k].shipping_service = services[j].name


AddressPcs == {"smarty", "google", "usps", "basic", "done", "raised"}

Rank(p) == CASE p = "smarty" -> 1 [] p = "google" -> 2 [] p = "usps" -> 3 [] OTHER -> 4

\* The provider has all the credentials it takes
HasCredentials(cfg, p) ==
    CASE p = "smarty" -> cfg.SMARTY_AUTH_ID /\ cfg.SMARTY_AUTH_TOKEN
      [] p = "google" -> cfg.GOOGLE_MAPS_API_KEY
      [] OTHER -> cfg.USPS_USER_ID

Returned == call.results[Len(call.results)]

\* C16: the validators of a call are invoked in the order Smarty, Google,
\* USPS, heuristic; one is invoked only after every configured provider
\* before it was invoked and returned an invalid result (so the heuristic
\* comes last, after the second configured provider when the first fails),
\* and a call that ends without a valid provider result ends in the heuristic
C16_ProvidersInOrder ==
    call.pc \in AddressPcs =>
        /\ \A i, j \in DOMAIN call.invoked :
              i < j => Rank(call.invoked[i]) < Rank(call.invoked[j])
        /\ \A j \in DOMAIN call.invoked : \A p \in Providers :
              (Rank(p) < Rank(call.invoked[j]) /\ HasCredentials(call.cfg, p)) =>
                 \E i \in 1..(j - 1) :
                    /\ call.invoked[i] = p
                    /\ i \in DOMAIN call.results
                    /\ ~call.results[i].valid
        /\ (call.pc = "done" /\ ~Returned.valid) =>
              call.invoked[Len(call.invoked)] = "basic"

C16_Witness ==
    /\ call.pc = "done"
    /\ call.invoked = <<"google", "usps", "basic">>
    /\ ~call.results[1].valid
    /\ ~call.results[2].valid

\* C17: a provider without its credentials is never invoked and leaves no
\* result; the call stops at the first valid result, which is the last
\* validator invoked, and returns that validator's result unchanged
C17_SkipAndStopAtFirstValid ==
    call.pc \in AddressPcs =>
        /\ \A i \in DOMAIN call.invoked :
              call.invoked[i] \in Providers => HasCredentials(call.cfg, call.invoked[i])
        /\ call.pc # "raised" => Len(call.results) = Len(call.invoked)
        /\ \A i \in DOMAIN call.results :
              call.results[i].service = call.invoked[i]
        /\ \A i \in DOMAIN call.results :
              call.results[i].valid =>
                 /\ i = Len(call.invoked)
                 /\ call.pc = "done"
                 /\ Returned = call.results[i]

C17_Witness ==
    /\ call.pc = "done"
    /\ call.cfg.SMARTY_AUTH_ID
    /\ ~call.cfg.SMARTY_AUTH_TOKEN
    /\ call.cfg.USPS_USER_ID
    /\ call.invoked = <<"google">>
    /\ Returned.valid
    /\ Returned.service = "google"

Letters == {"A", "B", "C", "D", "E", "I", "L"}
Digits == {"0", "1", "2", "3", "4", "5", "6", "7", "8", "9"}

\* The heuristic as stated: the four fields non-empty, the state two
\* letters, the ZIP code 5 or 9 digits once the hyphens are taken out
HeuristicAccepts(a) ==
    /\ a.address_line1 # ""
    /\ a.city # ""
    /\ a.state # <<>>
    /\ a.zip_code # <<>>
    /\ Len(a.state) = 2
    /\ \A i \in DOMAIN a.state : a.state[i] \in Letters
    /\ Len(SelectSeq(a.zip_code, NotHyphen)) \in {5, 9}
    /\ \A i \in DOMAIN a.zip_code : a.zip_code[i] \in Digits \cup {"-"}

\* C18: a call that ends in the heuristic is valid exactly when the four
\* fields are non-empty, the state is two letters and the ZIP code is 5 or 9
\* digits once the hyphens are taken out; a passing address has confidence
\* low and the disclaimer
C18_HeuristicRule ==
    (call.pc = "done" /\ call.invoked[Len(call.invoked)] = "basic") =>
        /\ Returned.valid <=> HeuristicAccepts(call.addr)
        /\ Returned.valid => (Returned.confidence = "low" /\ Returned.warning # "")

\* C19: validate_address never raises; it returns a result whose valid is a
\* boolean, whose service names the validator that produced it, and which
\* carries an error whenever valid is false
C19_AlwaysAnOutcome ==
    /\ call.pc # "raised"
    /\ call.pc = "done" =>
          /\ Returned.valid \in BOOLEAN
          /\ Returned.service \in Providers \cup {"basic"}
          /\ ~Returned.valid => Returned.error # ""

C19_Witness ==
    /\ call.pc = "done"
    /\ call.invoked = <<"smarty", "google", "usps", "basic">>
    /\ call.results[1].error = "KeyError"
    /\ call.results[2].error = "JSONDecodeError"
    /\ call.results[3].error = "Timeout"
    /\ ~Returned.valid
    /\ Returned.error = "Invalid state code"


\* The text lines of the file that come before row n
RECURSIVE LinesBefore(_, _)
LinesBefore(file, n) ==
    IF n <= 1 THEN 0 ELSE LinesBefore(file, n - 1) + file[n - 1].lines

\* C20: the parser gives the first data row, the third row of the file,
\* the number 3 and moves the number on with every row it reads, parsed,
\* skipped or dropped; so each parsed record carries the position of the row
\* it was parsed from, the numbers of the records are strictly increasing,
\* and the shipments of the batch stored from them carry the same numbers
C20_RowNumberIsFilePosition ==
    call.pc \in {"rows", "returned"} =>
        /\ call.row_number = call.pos
        /\ \A i \in DOMAIN call.shipments :
              LET n == call.shipments[i].row_number
              IN /\ n \in 3..(call.pos - 1)
                 /\ ~parse_row(call.file[n], n).raised
                 /\ call.shipments[i] = parse_row(call.file[n], n).value
        /\ \A i, j \in DOMAIN call.shipments :
              i < j => call.shipments[i].row_number < call.shipments[j].row_number
        /\ \A i \in DOMAIN shipments :
              /\ i \in DOMAIN call.shipments
              /\ shipments[i].row_number = call.shipments[i].row_number
        /\ \A i, j \in DOMAIN shipments :
              (i < j /\ shipments[i].batch = shipments[j].batch) =>
                 shipments[i].row_number < shipments[j].row_number

C20_Witness ==
    /\ call.pc = "returned"
    /\ Len(call.file) = 5
    /\ call.file[3].columns = 13
    /\ call.file[4].weight_lbs = "inf"
    /\ LinesBefore(call.file, 5) = 5
    /\ Len(shipments) = 1
    /\ shipments[1].row_number = 5


IsParse == "file" \in DOMAIN call

\* The record, if any, made from row n of the file
RecordsOf(n) == {i \in DOMAIN call.shipments : call.shipments[i].row_number = n}

\* C21: a data row with fewer than 23 columns produces no record, the rows
\* after it are still read, and the records made from them carry the
\* position of their rows
C21_ShortRowsSkipped ==
    (IsParse /\ call.pc \in {"rows", "returned"}) =>
        /\ \A n \in 3..(call.pos - 1) :
              call.file[n].columns < 23 => RecordsOf(n) = {}
        /\ \A i \in DOMAIN call.shipments :
              call.shipments[i].row_number \in 3..(call.pos - 1)
        /\ call.pc = "returned" => call.pos = Len(call.file) + 1

\* C22: CSVParser.parse raises for no input text, the empty text and the
\* text with fewer than two header rows included
C22_ParseNeverRaises == IsParse => call.pc # "raised"

\* C23: a row of 23 columns always produces a record, and a weight cell that
\* is blank, not a number or an infinity gives weight_lbs 0 in it
C23_NumericFailureGivesZero ==
    (IsParse /\ call.pc \in {"rows", "returned"}) =>
        \A n \in 3..(call.pos - 1) :
           call.file[n].columns >= 23 =>
              /\ RecordsOf(n) # {}
              /\ call.file[n].weight_lbs \in {"", "abc", "inf"} =>
                    \A i \in RecordsOf(n) : call.shipments[i].weight_lbs = 0


RowsOf(shs, b) == {i \in DOMAIN shs : shs[i].batch = b}

\* C26: a batch appears in the store as 'reviewing' with all the rows of its
\* upload, never as 'uploaded' or with part of them; its status changes only
\* to 'purchased' and only in a step that creates a purchase of it; a batch
\* that is 'purchased' or 'cancelled' keeps its status
C26_BatchLifecycle ==
    [][ /\ DOMAIN batches \subseteq DOMAIN batches'
        /\ \A b \in DOMAIN batches' :
              /\ batches'[b].status # "uploaded"
              /\ b \notin DOMAIN batches =>
                    /\ batches'[b].status = "reviewing"
                    /\ RowsOf(shipments', b) # {}
                    /\ Cardinality(RowsOf(shipments', b)) = batches'[b].total_shipments
                    /\ \A i \in RowsOf(shipments', b) : i \notin DOMAIN shipments
              /\ (b \in DOMAIN batches /\ batches'[b].status # batches[b].status) =>
                    /\ batches'[b].status = "purchased"
                    /\ Len(purchases') = Len(purchases) + 1
                    /\ purchases'[Len(purchases')].batch = b
              /\ (b \in DOMAIN batches /\ batches[b].status \in {"purchased", "cancelled"}) =>
                    batches'[b].status = batches[b].status ]_vars

C26_Witness ==
    /\ nreq = 3
    /\ Len(batches) = 1
    /\ batches[1].status = "purchased"
    /\ batches[1].total_shipments = 0
    /\ Len(purchases) = 1
    /\ \A i \in RowsOf(shipments, 1) : shipments[i].is_deleted

ForeignBatch(u, b) == b \in DOMAIN batches /\ batches[b].user # u

ForeignShipment(u, id) ==
    id \in DOMAIN shipments /\ batches[shipments[id].batch].user # u

\* The recorded request of user u names a record of another user
NamesForeign(op, u, target) ==
    CASE op \in {"update", "destroy"} -> ForeignShipment(u, target)
      [] op \in {"clear", "calculate_costs"} -> ForeignBatch(u, target)
      [] op = "purchase" -> ForeignBatch(u, target.batch_id)
      [] op \in BulkOps ->
           \E i \in Range(target.shipment_ids) : ForeignShipment(u, i)
      [] OTHER -> FALSE

\* The records and the balance of every user but u are what they were
OthersUntouched(u) ==
    /\ DOMAIN batches \subseteq DOMAIN batches'
    /\ DOMAIN shipments \subseteq DOMAIN shipments'
    /\ DOMAIN purchases \subseteq DOMAIN purchases'
    /\ \A b \in DOMAIN batches : batches[b].user # u => batches'[b] = batches[b]
    /\ \A i \in DOMAIN shipments :
          batches[shipments[i].batch].user # u => shipments'[i] = shipments[i]
    /\ \A p \in DOMAIN purchases :
          purchases[p].user # u => purchases'[p] = purchases[p]
    /\ \A v \in Users \ {u} : balance'[v] = balance[v]

C27_AnsweredRequest == resp.op = "none" /\ resp'.op # "none"

C27_OthersUntouched ==
    [][C27_AnsweredRequest => OthersUntouched(resp'.user)]_vars

\* C27: a request that names a batch or a shipment of another user is
\* answered 404 Not Found and leaves every record and balance as it was, and
\* no request of a user changes a batch, a shipment, a purchase or the
\* balance of another user.
C27_ForeignIsNotFound ==
    [][C27_AnsweredRequest =>
          /\ OthersUntouched(resp'.user)
          /\ NamesForeign(resp'.op, resp'.user, resp'.target) =>
                /\ resp'.code = HTTP_404_NOT_FOUND
                /\ UNCHANGED <<balance, batches, shipments, purchases>>]_vars

IsValidation == "rows" \in DOMAIN call

Visited == {call.rows[i].shipment : i \in DOMAIN call.rows}

CountRows(to) == Cardinality({i \in DOMAIN call.rows : call.rows[i].to = to})

\* C28: a validate-addresses request never ends in the middle of its batch.
\* Whatever the validations of the shipments before it returned or raised,
\* each shipment of the batch is visited once and in order; a shipment whose
\* to-address is found valid and whose processing does not raise is saved as
\* validated; and the request is answered 200 after the last shipment, the
\* validated count being the number of valid to-addresses and the failed
\* count the number of invalid to-addresses plus the number of shipments
\* whose processing raised.
C28_ValidationNeverAborts ==
    IsValidation =>
      /\ call.pc \in {"loop", "complete"}
      /\ Visited = {i \in BatchShipments(shipments, call.batch) : i <= call.pos}
      /\ Len(call.rows) = Cardinality(Visited)
      /\ \A i \in DOMAIN call.rows :
            call.rows[i].to = "valid" /\ ~call.rows[i].raised
               => call.rows[i].saved /\ call.rows[i].to_address_validated
      /\ call.validated_count = CountRows("valid")
      /\ call.failed_count =
            CountRows("invalid")
              + Cardinality({i \in DOMAIN call.rows : call.rows[i].raised})
      /\ call.pc = "complete" =>
            /\ Visited = BatchShipments(shipments, call.batch)
            /\ resp.op = "validate_addresses"
            /\ resp.code = HTTP_200_OK

\* A batch of two shipments: the validation of the first raises, the second
\* is still validated and saved, and the request completes with counts 1, 1
C28_Witness ==
    /\ IsValidation
    /\ call.pc = "complete"
    /\ Len(call.rows) = 2
    /\ call.rows[1].to = "raised"
    /\ call.rows[2].to_address_validated
    /\ call.validated_count = 1
    /\ call.failed_count = 1
    /\ resp.code = HTTP_200_OK

\* A batch in which the first shipment is rejected by every provider and by
\* the heuristic while the second is validated
C28_WitnessInvalid ==
    /\ IsValidation
    /\ call.pc = "complete"
    /\ Len(call.rows) = 2
    /\ call.rows[1].to = "invalid"
    /\ call.rows[1].saved
    /\ call.rows[2].to_address_validated

\* The rows of user u marked default in one table
Defaults(kind, u) ==
    {i \in DOMAIN saved_items[kind] :
        saved_items[kind][i].user = u /\ saved_items[kind][i].is_default}

AllIdle == \A k \in Slots : req[k].pc = "idle"

\* C29: the clear and the set of a set-default request are separate
\* queries.  Two rows of one user are both marked default only through
\* requests that were in progress at the same time: of two default rows, the
\* request that set the one marked first had not yet written its row when
\* the request that set the other arrived.  (Requests handled one after the
\* other leave at most one default; C29_Witness is the interleaving.)
C29_TwoDefaultsNeedOverlap ==
    \A kind \in Kinds, u \in Users :
      \A i \in Defaults(kind, u), j \in Defaults(kind, u) :
        LET a == saved_items[kind][i]
            b == saved_items[kind][j]
        IN /\ i # j => a.began # b.began
           /\ a.began < b.began => a.done >= b.began

\* Two requests set addresses 1 and 2 of u1 as default; both have completed
\* and both rows are marked default
C29_Witness ==
    /\ AllIdle
    /\ nreq = 2
    /\ Defaults("address", "u1") = {1, 2}

\* The same for saved packages
C29_WitnessPackage ==
    /\ AllIdle
    /\ nreq = 2
    /\ Defaults("package", "u1") = {1, 2}

\* C30: the stored total_shipments of every batch is the number of its
\* shipments that are not deleted, after uploads, single deletes, bulk
\* deletes and batch clears.
C30_TotalShipmentsIsCount ==
    \A b \in DOMAIN batches :
        batches[b].total_shipments = Cardinality(BatchShipments(shipments, b))

\* The same over uploads and batch clears alone: a step that deletes no
\* shipment, or that stores a new total_shipments in a batch, keeps the count
C30_UploadAndClearKeepCount ==
    [][(\/ \A i \in DOMAIN shipments :
              shipments'[i].is_deleted = shipments[i].is_deleted
        \/ \E b \in DOMAIN batches :
              batches'[b].total_shipments # batches[b].total_shipments)
        /\ C30_TotalShipmentsIsCount
        => C30_TotalShipmentsIsCount']_vars

\* The price of the service named on shipment s for the weight s has now
PricedAsChosen(s) ==
    \E k \in DOMAIN services :
        /\ services[k].name = s.shipping_service
        /\ s.shipping_cost =
              QuantizeCents(calculate_price(services[k], total_weight_oz(s)))

\* C31: every shipment that has a shipping service carries, as its
\* shipping_cost, the price of that service for the shipment's current total
\* weight, also after an update or a bulk package update changed the weight.
C31_CostIsPriceOfService ==
    \A i \in DOMAIN shipments :
        ActiveManager(shipments[i]) /\ shipments[i].shipping_service # ""
            => PricedAsChosen(shipments[i])

\* The same at the moment a request assigns the service
C31_PricedWhenAssigned ==
    [][\A i \in DOMAIN shipments :
          shipments'[i].shipping_service # shipments[i].shipping_service
              => PricedAsChosen(shipments[i])']_vars

ToAddress(s) ==
    <<s.to_address_line1, s.to_address_line2, s.to_city, s.to_state, s.to_zip_code>>

FromAddress(s) ==
    <<s.from_address_line1, s.from_address_line2, s.from_city, s.from_state,
      s.from_zip_code>>

\* This step is an iteration of a validate-addresses loop on shipment i
ValidatesNow(i) ==
    /\ "rows" \in DOMAIN call /\ "rows" \in DOMAIN call'
    /\ Len(call'.rows) = Len(call.rows) + 1
    /\ call'.rows[Len(call'.rows)].shipment = i

LastOutcome == call'.rows[Len(call'.rows)]

\* C32: a validated flag is true after a step only if this step validated
\* the address and the validation returned valid, or the flag was true
\* before, the step left the address fields as they were and it was not a
\* validation of that address returning invalid.
C32_FlagMeansCurrentAddressValid ==
    [][\A i \in DOMAIN shipments :
         /\ shipments'[i].to_address_validated =>
               \/ ValidatesNow(i) /\ LastOutcome.to = "valid"
               \/ /\ shipments[i].to_address_validated
                  /\ ToAddress(shipments'[i]) = ToAddress(shipments[i])
                  /\ ~(ValidatesNow(i) /\ LastOutcome.to = "invalid"
                        /\ LastOutcome.saved)
         /\ shipments'[i].from_address_validated =>
               \/ ValidatesNow(i) /\ LastOutcome.from = "valid"
               \/ /\ shipments[i].from_address_validated
                  /\ FromAddress(shipments'[i]) = FromAddress(shipments[i])
                  /\ ~(ValidatesNow(i) /\ LastOutcome.from = "invalid"
                        /\ LastOutcome.saved)]_vars

\* The part that holds: a flag becomes true only in a validation of that
\* address that returned valid
C32_FlagSetOnlyByValidResult ==
    [][\A i \in DOMAIN shipments :
         /\ shipments'[i].to_address_validated /\ ~shipments[i].to_address_validated
               => ValidatesNow(i) /\ LastOutcome.to = "valid"
         /\ shipments'[i].from_address_validated
               /\ ~shipments[i].from_address_validated
               => ValidatesNow(i) /\ LastOutcome.from = "valid"]_vars


(***************************************************************************)
(* AddBalanceView.post as the steps of one request: authentication loads   *)
(* request.user, the handler adds the amount to the loaded balance and     *)
(* request.user.save() writes the row back.                                *)
(***************************************************************************)
AddBalanceBegin(k, u, amount) ==
    /\ req[k].pc = "idle"
    /\ UNCHANGED <<balance, services, batches, shipments, purchases, vrec, call, saved_items>>
    /\ IF amount <= 0
       THEN /\ UNCHANGED req
            /\ resp' = Resp("add_balance", u, 0,
                   validation_error("Amount must be greater than 0", ENone))
       ELSE /\ balance[u] + amount <= MaxBalance
            /\ req' = [req EXCEPT ![k] =
                  [pc |-> "add_save", user |-> u, amount |-> amount,
                   user_balance |-> balance[u]]]
            /\ UNCHANGED resp

\* request.user.account_balance = user_balance; request.user.save()
AddBalanceSave(k) ==
    /\ req[k].pc = "add_save"
    /\ UNCHANGED <<services, batches, shipments, purchases, vrec, call, saved_items>>
    /\ LET r == req[k] IN
       /\ balance' = [balance EXCEPT ![r.user] = r.user_balance + r.amount]
       /\ req' = [req EXCEPT ![k] = IdleReq]
       /\ resp' = Resp("add_balance", r.user, 0, success("Successfully added"))

\* Add-balance and purchase requests interleaved step by step
MaxLedgerRequests == 7

\* The requests are those of one user
LedgerUser == "u1"

\* Files of one or two valid rows
LedgerRows == {<<DraftBase>>, <<DraftBase, DraftBase>>}

ArrivesLedger == nreq < MaxLedgerRequests /\ Handled

NextLedger ==
    \/ \E rows \in LedgerRows : ArrivesLedger /\ UploadCSV(LedgerUser, rows)
    \/ \E b \in BatchIds : ArrivesLedger /\ CalculateCosts(LedgerUser, b)
    \/ \E k \in Slots, a \in Amounts :
          ArrivesLedger /\ AddBalanceBegin(k, LedgerUser, a)
    \/ \E k \in Slots : Continues /\ AddBalanceSave(k)
    \/ \E k \in Slots, b \in BatchIds :
          ArrivesLedger /\ PurchaseBegin(k, LedgerUser, b, TRUE)
    \/ \E k \in Slots : Continues /\ PurchaseGetBatch(k)
    \/ \E k \in Slots : Continues /\ PurchaseCount(k)
    \/ \E k \in Slots : Continues /\ PurchaseRecompute(k)
    \/ \E k \in Slots : Continues /\ PurchaseCommit(k)

SpecLedger == InitBulk /\ [][NextLedger]_vars

\* C33: no user's account balance is ever negative, whatever the order and
\* interleaving of that user's add-balance and purchase requests.
C33_BalanceNeverNegative ==
    \A u \in Users : balance[u] >= 0

\* Two purchases of different batches by one user, both with a positive
\* total, that together spent more than the account ever held: each passed
\* the balance check before the other committed
C33_Witness ==
    \E u \in Users : \E i, j \in DOMAIN purchases :
        /\ purchases[i].user = u /\ purchases[j].user = u
        /\ purchases[i].batch # purchases[j].batch
        /\ purchases[i].total_amount > 0 /\ purchases[j].total_amount > 0
        /\ balance[u] + purchases[i].total_amount + purchases[j].total_amount > MaxBalance


\* What a step adds to the account of u: the amounts of the add-balance
\* requests that complete in it
AddedInStep(u) ==
    SumOver({k \in Slots : req[k].pc = "add_save" /\ req[k].user = u /\ req'[k].pc = "idle"},
            [k \in Slots |-> IF "amount" \in DOMAIN req[k] THEN req[k].amount ELSE 0])

\* What a step spends from the account of u: total_amount of the Purchase
\* records it creates for u
SpentInStep(u) ==
    SumOver({i \in DOMAIN purchases' : i > Len(purchases) /\ purchases'[i].user = u},
            [i \in DOMAIN purchases' |-> purchases'[i].total_amount])

\* C34: no balance update is lost: every step changes the stored balance of
\* a user by exactly the amounts added in it minus the totals of the Purchase
\* records created in it, so that the balance is always the initial balance
\* plus all amounts added minus all purchase totals.
C34_NoBalanceUpdateLost ==
    [][ \A u \in Users : balance'[u] = balance[u] + AddedInStep(u) - SpentInStep(u) ]_vars


\* C35: a purchased batch is frozen: in every state the total_amount of each
\* Purchase is the total cost of its batch and its total_labels the number
\* of the batch's shipments, whatever requests follow the purchase.
C35_PurchasedBatchFrozen ==
    \A i \in DOMAIN purchases :
        /\ batches[purchases[i].batch].total_cost = purchases[i].total_amount
        /\ Cardinality(BatchShipments(shipments, purchases[i].batch)) = purchases[i].total_labels


\* The purchase handler with no statement of its block failing for a reason
\* of its own (no database error)
NextPurchaseNoFault ==
    /\ nreq < MaxPurchaseRequests
    /\ Handled
    /\ \/ \E u \in Users, rows \in RowSeqs : UploadCSV(u, rows)
       \/ \E u \in Users, a \in Amounts : AddBalance(u, a)
       \/ \E u \in Users, b \in BatchIds : CalculateCosts(u, b)
       \/ \E u \in Users, id \in ShipmentIds : DestroyShipment(u, id)
       \/ \E u \in Users, b \in BatchIds, t \in BOOLEAN : CreatePurchase(u, b, t, 0)

SpecPurchaseNoFault == InitPurchase /\ [][NextPurchaseNoFault]_vars

\* The request meets the three preconditions of a purchase
Qualifies(u, b, terms) ==
    /\ terms
    /\ BatchOwned(batches, u, b)
    /\ CurrentCount(b) > 0
    /\ balance[u] >= CurrentCostSum(b)

\* The purchase of b by u succeeded and its effects are in the store
PurchaseApplied(u, b) ==
    /\ resp'.code = HTTP_201_CREATED
    /\ balance' = [balance EXCEPT ![u] = @ - CurrentCostSum(b)]
    /\ Len(purchases') = Len(purchases) + 1
    /\ purchases'[Len(purchases')].batch = b
    /\ batches'[b].status = "purchased"

\* C36: a purchase request by the owner of a batch with at least one
\* shipment, with terms accepted and a balance that covers the recomputed
\* total cost, succeeds and applies the purchase effects, also when the total
\* cost is zero.
C36_QualifiedPurchaseSucceeds ==
    [][ PurchaseHandled =>
          LET u == resp'.user
              b == resp'.target.batch_id
          IN Qualifies(u, b, resp'.target.terms_accepted) => PurchaseApplied(u, b) ]_vars

\* The same for the batches whose total cost is positive
C36_PositiveTotalSucceeds ==
    [][ PurchaseHandled =>
          LET u == resp'.user
              b == resp'.target.batch_id
          IN (Qualifies(u, b, resp'.target.terms_accepted) /\ CurrentCostSum(b) > 0)
                => PurchaseApplied(u, b) ]_vars


\* Every identifier of the recorded selection resolves to a shipment of the
\* requester, and no statement of the request fails for a reason of its own
AllResolve(u, target) ==
    /\ target.shipment_ids # <<>>
    /\ target.raised_at = 0
    /\ \A k \in DOMAIN target.shipment_ids : Resolves(u, target.shipment_ids[k])

\* The request was accepted and its patch shows on every shipment it names
AcceptedAndApplied(r) ==
    /\ r.code = HTTP_200_OK
    /\ \A i \in Range(r.target.shipment_ids) :
          PatchApplied(r.op, r.target.payload, shipments'[i])

\* C37: a bulk mutation whose identifiers all resolve to shipments of the
\* requester is accepted and applied to each of them, also when the list
\* names a shipment more than once.
C37_ResolvingSelectionAccepted ==
    [][ (BulkHandled /\ AllResolve(resp'.user, resp'.target))
          => AcceptedAndApplied(resp') ]_vars

\* The same for the lists that name no shipment twice
C37_DistinctSelectionAccepted ==
    [][ (/\ BulkHandled
         /\ AllResolve(resp'.user, resp'.target)
         /\ Cardinality(Range(resp'.target.shipment_ids)) = Len(resp'.target.shipment_ids))
          => AcceptedAndApplied(resp') ]_vars


\* The fields of one address zone of a record, under the payload's keys
Zone(s, address_type) ==
    IF address_type = "from"
    THEN [first_name |-> s.from_first_name, last_name |-> s.from_last_name,
          address_line1 |-> s.from_address_line1, address_line2 |-> s.from_address_line2,
          city |-> s.from_city, state |-> s.from_state, zip_code |-> s.from_zip_code]
    ELSE [first_name |-> s.to_first_name, last_name |-> s.to_last_name,
          address_line1 |-> s.to_address_line1, address_line2 |-> s.to_address_line2,
          city |-> s.to_city, state |-> s.to_state, zip_code |-> s.to_zip_code]

OtherZone(address_type) == IF address_type = "from" THEN "to" ELSE "from"

\* What an address update has no business with: the other zone, the package,
\* the service and the cost
OutsideZoneKept(s, t, address_type) ==
    /\ Zone(t, OtherZone(address_type)) = Zone(s, OtherZone(address_type))
    /\ t.length = s.length /\ t.width = s.width /\ t.height = s.height
    /\ t.weight_lbs = s.weight_lbs /\ t.weight_oz = s.weight_oz
    /\ t.shipping_service = s.shipping_service
    /\ t.shipping_cost = s.shipping_cost
    /\ t.batch = s.batch /\ t.is_deleted = s.is_deleted

\* Each field of the zone is the payload's value, or the previous value when
\* the payload omits it
ZoneFromPayload(s, t, address_type, data) ==
    \A f \in DOMAIN Zone(s, address_type) :
        Zone(t, address_type)[f] =
            IF f \in DOMAIN data THEN data[f] ELSE Zone(s, address_type)[f]

AddressAccepted ==
    BulkHandled /\ resp'.op = "bulk_address" /\ resp'.code = HTTP_200_OK

\* C38: an accepted bulk address update changes, on each selected record,
\* only the fields of the chosen zone and only to the values present in the
\* payload (a name the payload omits keeps its value); the other zone, the
\* package, the service and the cost are unchanged, and so is every shipment
\* outside the selection.
C38_AddressFrame ==
    [][ AddressAccepted =>
          \A i \in DOMAIN shipments :
              IF i \in Range(resp'.target.shipment_ids)
              THEN /\ OutsideZoneKept(shipments[i], shipments'[i],
                                      resp'.target.payload.address_type)
                   /\ ZoneFromPayload(shipments[i], shipments'[i],
                                      resp'.target.payload.address_type,
                                      resp'.target.payload.data)
              ELSE shipments'[i] = shipments[i] ]_vars

\* The same without the fields the payload omits
C38_OutsideZoneKept ==
    [][ AddressAccepted =>
          \A i \in DOMAIN shipments :
              IF i \in Range(resp'.target.shipment_ids)
              THEN /\ OutsideZoneKept(shipments[i], shipments'[i],
                                      resp'.target.payload.address_type)
                   /\ \A f \in DOMAIN resp'.target.payload.data :
                         Zone(shipments'[i], resp'.target.payload.address_type)[f]
                            = resp'.target.payload.data[f]
              ELSE shipments'[i] = shipments[i] ]_vars


\* Calculate-costs requests on batches of valid and invalid records, some of
\* them with a service chosen before, under every catalog
MaxCalcRequests == 3

\* A catalog whose services are all switched off
AllOff == [i \in DOMAIN SeedServices |-> [SeedServices[i] EXCEPT !.is_active = FALSE]]

InitCalc ==
    /\ EmptyStore
    /\ services \in ServiceCatalogs \cup {AllOff}
    /\ observe = {"calculate_costs"}
    /\ vrec = NoRec

NextCalc ==
    /\ nreq < MaxCalcRequests
    /\ Handled
    /\ \/ \E u \in Users, rows \in RowSeqs : UploadCSV(u, rows)
       \/ \E u \in Users, ids \in IdLists : BulkUpdateShippingService(u, ids, "priority", 0)
       \/ \E u \in Users, b \in BatchIds : CalculateCosts(u, b)

SpecCalc == InitCalc /\ [][NextCalc]_vars

CalcHandled == nreq' = nreq + 1 /\ resp'.op = "calculate_costs"

\* The active services of lowest base price
Cheapest ==
    {k \in ActiveServices(services) :
        \A j \in ActiveServices(services) : services[k].base_price <= services[j].base_price}

\* C39: a calculate-costs request on a batch of the requester assigns the
\* active service of lowest base price and its price for the shipment's
\* weight to exactly the valid shipments of the batch, and leaves every other
\* shipment as it was; with no active service it is rejected and changes
\* nothing.
C39_CostsForValidOnly ==
    [][ (CalcHandled /\ BatchOwned(batches, resp'.user, resp'.target)) =>
          IF ActiveServices(services) = {}
          THEN /\ resp'.code = HTTP_422_UNPROCESSABLE_ENTITY
               /\ UNCHANGED <<shipments, batches>>
          ELSE /\ resp'.code = HTTP_200_OK
               /\ \E k \in Cheapest :
                     \A i \in DOMAIN shipments :
                        shipments'[i] =
                           IF /\ i \in BatchShipments(shipments, resp'.target)
                              /\ shipments[i].validation_status = "valid"
                           THEN [shipments[i] EXCEPT
                                   !.shipping_service = services[k].name,
                                   !.shipping_cost = QuantizeCents(
                                       calculate_price(services[k], total_weight_oz(shipments[i])))]
                           ELSE shipments[i] ]_vars

\* a batch with a valid record and a record that is not valid, both with the
\* priority service chosen before, had its costs calculated: the valid one
\* carries the cheapest service, the other one kept the priority service
C39_Witness ==
    /\ resp.op = "calculate_costs"
    /\ resp.code = HTTP_200_OK
    /\ \E i, j \in BatchShipments(shipments, resp.target) :
          /\ shipments[i].validation_status = "valid"
          /\ shipments[i].shipping_service = "Ground Shipping"
          /\ shipments[j].validation_status # "valid"
          /\ shipments[j].shipping_service = "Priority Mail"
          /\ shipments[j].shipping_cost > 0


\* Shipment updates that arrive while a validate-addresses run is in progress
MaxStaleRequests == 3

ArrivesStale == nreq < MaxStaleRequests /\ Handled

NextStale ==
    \/ \E u \in Users, rows \in RowSeqs :
          ArrivesStale /\ call.pc # "loop" /\ UploadCSV(u, rows)
    \/ \E u \in Users, b \in BatchIds : ArrivesStale /\ ValidateBegin(u, b)
    \/ \E t, f \in ValidationOutcomes, s \in SaveOutcomes : ValidateStep(t, f, s)
    \/ ValidateDone
    \/ \E u \in Users, id \in ShipmentIds, p \in Patches :
          ArrivesStale /\ UpdateShipment(u, id, p)

SpecStale == InitBulk /\ [][NextStale]_vars

\* A record without what a validate-addresses run is there to write
Unflagged(s) ==
    [s EXCEPT !.to_address_validated = FALSE, !.from_address_validated = FALSE]

\* The step is an iteration of the validation loop
LoopIteration == call.pc = "loop" /\ call' # call

\* C40: a shipment update that commits while a validate-addresses run on the
\* batch is in progress is not lost: no iteration of the run changes any
\* field of a shipment but the validated flags, so that the fields and the
\* validation status the update stored are still there when both requests
\* are complete.
C40_UpdateNotLost ==
    [][ LoopIteration =>
          \A i \in DOMAIN shipments : Unflagged(shipments'[i]) = Unflagged(shipments[i]) ]_vars

====
